---- MODULE Spec2Model ----
(***************************************************************************)
(* Another World interpreter: the bytecode virtual machine                 *)
(* (src/src/vm.cc, src/src/vm.h) driven by the engine main loop            *)
(* (src/src/engine.cc).  The VM multiplexes 64 cooperative threads over    *)
(* executed ticks; init/reset requests are deferred to the scheduling      *)
(* pass that opens the next executed tick.                                 *)
(***************************************************************************)
EXTENDS Integers, Sequences, FiniteSets, TLC

(***************************************************************************)
(* Program constants                                                       *)
(***************************************************************************)
NumThreads == 64
NumRegisters == 256
StackSize == 256
NumResources == 256
PC_INACTIVE == 65535
PC_KILL == 65534
OPCODE_NONE == 63
OPCODE_INVALID == 27
PAUSED_DELAY == 100
SLICE_TICKS == 20
GAME_PART0 == 16000
GAME_PART1 == 16001
GAME_PART2 == 16002
GAME_PART_FIRST == 16000
GAME_PART_LAST == 16009
VM_VARIABLE_RANDOM_SEED == 60
VM_VARIABLE_INPUT_KEY == 218
VM_VARIABLE_HERO_POS_UP_DOWN == 229
VM_VARIABLE_HERO_ACTION == 250
VM_VARIABLE_HERO_POS_JUMP_DOWN == 251
VM_VARIABLE_HERO_POS_LEFT_RIGHT == 252
VM_VARIABLE_HERO_POS_MASK == 253
VM_VARIABLE_HERO_ACTION_POS_MASK == 254
VM_VARIABLE_MUSIC_MARK == 244
VM_VARIABLE_PAUSE_SLICES == 255

(***************************************************************************)
(* Bounds of the model                                                     *)
(***************************************************************************)
\* executed ticks explored
MaxTick == 6
\* largest host clock value explored
MaxClock == 110
\* typed character delivered by the host (an upper-case letter)
TypedKey == 65
\* number of images that a part change draws from
MaxPartImage == 3
\* largest count of the djnz loops
MaxLoop == 5

ThreadIds == 0 .. (NumThreads - 1)
RegisterIds == 0 .. (NumRegisters - 1)

U16(n) == n % 65536
\* uint32_t tick arithmetic: every value the bounds let the clock reach
\* (at most MaxClock + 100 + 65535 * 20) is far below 2^32, where it would wrap
U32(n) == n

(***************************************************************************)
(* Bytecode images.  An image is the byte buffer the resource loader hands *)
(* to setByteCode; the assembler below only lays out the bytes the         *)
(* interpreter decodes (big-endian words).                                 *)
(***************************************************************************)
Word(n) == << n \div 256, n % 256 >>
I_movi(r, n) == << 0, r >> \o Word(n)
I_addi(r, n) == << 3, r >> \o Word(n)
I_call(loc) == << 4 >> \o Word(loc)
I_ret == << 5 >>
I_yield == << 6 >>
I_jump(loc) == << 7 >> \o Word(loc)
I_init(tid, loc) == << 8, tid >> \o Word(loc)
I_sound(id, frequency, volume, channel) ==
    << 24 >> \o Word(id) \o << frequency, volume, channel >>
I_music(id, delay, position) == << 26 >> \o Word(id) \o Word(delay) \o << position >>
\* poly1 with its operand bytes after the offset, and poly2
I_poly1(opcode, offset, operands) == << opcode >> \o Word(offset \div 2) \o operands
I_poly2(offset, x, y) ==
    << 128 + ((offset \div 2) \div 256), (offset \div 2) % 256, x, y >>
I_djnz(dst, loc) == << 9, dst >> \o Word(loc)
I_cjmp(variant, rg1, operand, loc) ==
    << 10, variant, rg1 >> \o operand \o Word(loc)
I_reset(begin, end, state) == << 12, begin, end, state >>
I_kill == << 17 >>
I_loadres(id) == << 25 >> \o Word(id)

\* thread 0 starts 1 and 63, re-inits itself; thread 1 re-inits thread 0;
\* thread 63 pauses and resumes thread 1, then kills all and revives 1
ImageInit ==
       I_init(1, 15) \o I_init(63, 22) \o I_yield          \*  0  4  8
    \o I_init(0, 8) \o I_yield \o I_kill                    \*  9 13 14
    \o I_yield \o I_init(0, 14) \o I_yield \o I_kill        \* 15 16 20 21
    \o I_reset(1, 1, 1) \o I_yield                          \* 22 26
    \o I_reset(1, 1, 0) \o I_yield                          \* 27 31
    \o I_reset(0, 63, 2) \o I_init(1, 15) \o I_yield        \* 32 36 40
    \o I_kill                                               \* 41

\* thread 0 starts 1 and 2, later requests thread 3 and kills all 64;
\* thread 1 pauses thread 2 and keeps running; thread 2 idles
ImageKill ==
       I_init(1, 20) \o I_init(2, 32) \o I_yield           \*  0  4  8
    \o I_yield                                              \*  9
    \o I_init(3, 32) \o I_reset(0, 63, 2) \o I_yield        \* 10 14 18
    \o I_kill                                               \* 19
    \o I_reset(2, 2, 1) \o I_yield                          \* 20 24
    \o I_addi(16, 1) \o I_jump(24)                          \* 25 29 (thread 1 loop)
    \o I_yield \o I_jump(32)                                \* 32 33 (thread 2 loop)

\* thread 0 starts 1, pauses 2..3, calls into a routine that requests the
\* next part and kills itself with one return address pushed; thread 1
\* kills all, re-requests thread 2 and yields
ImagePart ==
       I_init(1, 21) \o I_reset(2, 3, 1) \o I_yield        \*  0  4  8
    \o I_call(13) \o I_kill                                 \*  9 12
    \o I_movi(16, 4660) \o I_loadres(GAME_PART2) \o I_kill  \* 13 17 20
    \o I_reset(0, 63, 2) \o I_init(2, 21) \o I_yield        \* 21 25 29
    \o I_jump(21)                                           \* 30

\* thread 0 calls itself without end
ImageOverflow == I_call(0)                                  \*  0

\* thread 0 returns with nothing pushed
ImageUnderflow == I_ret                                     \*  0

\* thread 0 starts thread 1; in its second slice it writes a register and
\* then meets a byte that is no instruction
ImageInvalid(op) ==
       I_init(1, 11) \o I_yield                            \*  0  4
    \o I_movi(16, 1) \o << op >> \o I_kill                  \*  5  9 10
    \o I_yield \o I_kill                                   \* 11 12

\* thread 0 idles for four ticks, then requests the first part of the game
ImageRestart ==
       I_yield \o I_yield \o I_yield \o I_yield            \*  0  1  2  3
    \o I_loadres(GAME_PART0) \o I_kill                     \*  4  7

\* the 16-bit values the comparisons are tried on
CjmpWords == << 0, 1, 255, 256, 32767, 32768, 65535 >>
CjmpValues == { CjmpWords[i] : i \in 1 .. Len(CjmpWords) }

\* operand forms of cjmp: form bits (with don't-care bits), first register,
\* operand bytes; register forms, immediate byte forms, immediate word forms
CjmpForms ==
    << << 128, 16, << 17 >> >>, << 128, 16, << 16 >> >>,
       << 128, 41, << 30 >> >>, << 128, 30, << 41 >> >>,
       << 192, 41, << 30 >> >>, << 184, 16, << 17 >> >>,
       << 0, 16, << 0 >> >>, << 0, 16, << 1 >> >>,
       << 0, 16, << 255 >> >>, << 0, 41, << 30 >> >> >>
    \o [ i \in 1 .. Len(CjmpWords) |-> << 64, 16, Word(CjmpWords[i]) >> ]

\* offsets of the cjmp, of the instruction after it and of its target
CjmpAt == Len(I_addi(0, 0))
CjmpNext(form) == CjmpAt + 3 + Len(form[3]) + 2
CjmpTarget(form) == CjmpNext(form) + 5

\* thread 0 increments the first register, compares and marks register 32
\* with 1 on the fall-through path and with 2 at the target
ImageCjmp(compare, form) ==
       I_addi(form[2], 1)
    \o I_cjmp(form[1] + compare, form[2], form[3], CjmpTarget(form))
    \o I_movi(32, 1) \o I_kill
    \o I_movi(32, 2) \o I_kill

\* one image per condition code 0..7 and operand form
CjmpImages ==
    [ i \in 1 .. (8 * Len(CjmpForms)) |->
        ImageCjmp((i - 1) % 8, CjmpForms[((i - 1) \div 8) + 1]) ]

\* thread 0 counts register 0 down from n in a djnz loop on itself
ImageDjnz(n) == I_movi(0, n) \o I_djnz(0, 4) \o I_kill     \*  0  4  8

\* one image per loop count 1..MaxLoop
DjnzImages == [ n \in 1 .. MaxLoop |-> ImageDjnz(n) ]

\* thread 0 starts 1 and ends its slice inside a routine, one return
\* address pushed; in the next tick thread 1 returns twice
ImageShare ==
       I_init(1, 10) \o I_call(8)                          \*  0  4
    \o I_ret \o I_yield \o I_yield \o I_ret                \*  7  8  9 10

FixedImages ==
    << ImageInit, ImageKill, ImagePart, ImageUnderflow, ImageOverflow,
       ImageRestart, ImageShare >>
DjnzImageIds == (Len(FixedImages) + 1) .. (Len(FixedImages) + MaxLoop)

BaseImages ==
    FixedImages
    \o DjnzImages
    \o [ i \in 1 .. (OPCODE_NONE - OPCODE_INVALID + 1) |->
           ImageInvalid(OPCODE_INVALID + i - 1) ]

\* the resource ids a music and a sound instruction are given: playable,
\* of another type, not loaded, and past the resource table
MusicArgs == {3, 1, 5, 4, 200}
SoundArgs == {1, 3, 5, 2, 200}

\* thread 0 starts music 3, leaves sound 1 pending on channel 1, then plays
\* the given music and the given sound
ImageSound(music, sound) ==
    I_music(3, 0, 0) \o I_sound(1, 10, 70, 5)                \*  0  6
        \o I_music(music, 0, 1) \o I_sound(sound, 10, 20, 6)  \* 12 18
        \o I_kill                                              \* 24

SoundImages ==
    [ i \in 1 .. 25 |->
        ImageSound(CHOOSE x \in MusicArgs :
                       Cardinality({y \in MusicArgs : y < x}) = (i - 1) % 5,
                   CHOOSE x \in SoundArgs :
                       Cardinality({y \in SoundArgs : y < x}) = (i - 1) \div 5) ]

\* the offsets of the descriptors of the polygon segment
DrawOffsets == << 0, 12, 24, 36, 38, 52, 60, 72, 84 >>

\* thread 0 draws the polygon at the given offset of the polygon segment,
\* first at the position and with the zoom held by registers 1, 2 and 3,
\* then at (250, 201) without zoom
ImageDraw(offset) ==
    I_poly1(85, offset, << 1, 2, 3 >>) \o I_poly2(offset, 250, 201)   \* 0 6
        \o I_kill                                                     \* 10

DrawImages == [ i \in 1 .. Len(DrawOffsets) |-> ImageDraw(DrawOffsets[i]) ]

\* thread 0 marks register 32 and leaves the image for 0xFFFF: by a jump,
\* a call, a cjmp that holds, a djnz that loops, or a kill
GoneKinds == 1 .. 5
ImageGone(kind) ==
       I_movi(32, 1)
    \o (CASE kind = 1 -> I_jump(65535)
          [] kind = 2 -> I_call(65535)
          [] kind = 3 -> I_cjmp(0, 16, << 0 >>, 65535)
          [] kind = 4 -> I_djnz(0, 65535)
          [] OTHER    -> I_kill)
    \o I_movi(32, 2) \o I_kill
GoneImages == [ kind \in GoneKinds |-> ImageGone(kind) ]

\* how deep the subroutines of an image are nested
MaxNest == 5
\* offsets of subroutine k, of the call it makes and of the instruction
\* after that call
NestSub(k) == 8 + (12 * (k - 1))
NestCall(k) == NestSub(k) + 4
NestBack(k) == NestCall(k) + 3
\* subroutines k..d: each counts its entry in register k, calls the next
\* one, counts the return in register 10 + k and returns; the last one
\* only counts its entry and returns
RECURSIVE NestSubs(_, _)
NestSubs(k, d) ==
    IF k = d THEN I_addi(k, 1) \o I_ret
    ELSE I_addi(k, 1) \o I_call(NestSub(k + 1)) \o I_addi(10 + k, 1) \o I_ret
         \o NestSubs(k + 1, d)
\* thread 0 calls the first subroutine twice                    \*  0  3  6
ImageNest(d) ==
    I_call(NestSub(1)) \o I_call(NestSub(1)) \o I_kill \o I_kill \o NestSubs(1, d)
NestImages == [ d \in 1 .. MaxNest |-> ImageNest(d) ]

\* thread 0 starts thread 1 and pauses it at once, kills it in the next tick,
\* re-initialises it in the third and resumes it in the fourth; thread 1
\* counts its slices in register 16
ImagePaused ==
       I_init(1, 28) \o I_reset(1, 1, 1) \o I_yield          \*  0  4  8
    \o I_reset(1, 1, 2) \o I_yield                            \*  9 13
    \o I_init(1, 28) \o I_yield                               \* 14 18
    \o I_reset(1, 1, 0) \o I_yield                            \* 19 23
    \o I_yield \o I_kill \o I_kill \o I_kill                  \* 24 25 26 27
    \o I_addi(16, 1) \o I_yield \o I_jump(28)                 \* 28 32 33

\* thread 0 starts thread 1, yields twice, then loops on a jump to itself;
\* thread 1 counts its slices in register 16
ImageSpin ==
       I_init(1, 10) \o I_yield \o I_yield                    \*  0  4  5
    \o I_jump(6) \o I_kill                                    \*  6  9
    \o I_addi(16, 1) \o I_yield \o I_jump(10)                 \* 10 14 15
TickImages == << ImagePaused, ImageSpin >>

\* operand bytes of init and reset: the first and the last slot of the
\* table, the two values after it, the largest byte
SlotBytes == << 0, 63, 64, 65, 255 >>
\* thread 0 marks register 16, executes one init, and kills itself
ImageSlotInit(tid) ==
    I_movi(16, 4660) \o I_init(tid, 9) \o I_kill \o I_kill    \*  0  4  8  9
\* thread 0 marks register 16, executes one reset, and kills itself
ImageSlotReset(begin, end, state) ==
    I_movi(16, 4660) \o I_reset(begin, end, state) \o I_kill   \*  0  4  8
SlotImages ==
       [ i \in 1 .. Len(SlotBytes) |-> ImageSlotInit(SlotBytes[i]) ]
    \o [ k \in 1 .. (Len(SlotBytes) * Len(SlotBytes) * 3) |->
          ImageSlotReset(SlotBytes[((k - 1) \div (3 * Len(SlotBytes))) + 1],
                         SlotBytes[(((k - 1) \div 3) % Len(SlotBytes)) + 1],
                         (k - 1) % 3) ]

\* an id past the resource table that names no part
NoSuchPart == 300
\* thread 0 starts thread 1, then requests a part that does not exist;
\* thread 1 counts its slices in register 16
ImageBadPart ==
       I_init(1, 12) \o I_yield                               \*  0  4
    \o I_loadres(NoSuchPart) \o I_yield                       \*  5  8
    \o I_kill \o I_kill \o I_kill                             \*  9 10 11
    \o I_addi(16, 1) \o I_yield \o I_jump(12)                 \* 12 16 17
SwitchImages == << ImageBadPart >>

\* the descriptors whose edges are looked up in the reciprocal table
FillOffsets == << 96, 108 >>
FillImages == [ i \in 1 .. Len(FillOffsets) |-> ImageDraw(FillOffsets[i]) ]

Images ==
    BaseImages \o CjmpImages \o SoundImages \o DrawImages \o GoneImages \o NestImages
        \o TickImages \o SlotImages \o SwitchImages \o FillImages
CjmpImageIds == (Len(BaseImages) + 1) .. (Len(BaseImages) + Len(CjmpImages))
SoundImageIds ==
    (Len(BaseImages) + Len(CjmpImages) + 1)
        .. (Len(BaseImages) + Len(CjmpImages) + Len(SoundImages))
DrawImageBase == Len(BaseImages) + Len(CjmpImages) + Len(SoundImages)
DrawImageIds == (DrawImageBase + 1) .. (DrawImageBase + Len(DrawImages))
GoneImageBase == DrawImageBase + Len(DrawImages)
GoneImageIds == (GoneImageBase + 1) .. (GoneImageBase + Len(GoneImages))
NestImageBase == GoneImageBase + Len(GoneImages)
NestImageIds == (NestImageBase + 1) .. (NestImageBase + Len(NestImages))
TickImageBase == NestImageBase + Len(NestImages)
TickImageIds == (TickImageBase + 1) .. (TickImageBase + Len(TickImages))
SlotImageBase == TickImageBase + Len(TickImages)
SlotImageIds == (SlotImageBase + 1) .. (SlotImageBase + Len(SlotImages))
SwitchImageBase == SlotImageBase + Len(SlotImages)
FillImageBase == SwitchImageBase + Len(SwitchImages)
FillImageIds == (FillImageBase + 1) .. (FillImageBase + Len(FillImages))
\* a segment that requests a part of the game, one that requests no part
SwitchImageIds ==
    { i \in 1 .. Len(BaseImages) : Images[i] = ImagePart }
        \cup ((SwitchImageBase + 1) .. (SwitchImageBase + Len(SwitchImages)))
ImageIds == 1 .. Len(Images)
\* the images the first part can turn out to hold
BootImageIds == 1 .. Len(BaseImages)
\* the images a requested part can turn out to hold
PartImageIds == 1 .. MaxPartImage
NullBuffer == 0

VARIABLES
    pos,          \* control position in Engine::main / VirtualMachine::run
    cur,          \* index of the thread slot run_all_threads is at
    threads,      \* VirtualMachine::_threads
    registers,    \* VirtualMachine::_registers (as unsigned 16-bit)
    stack,        \* VirtualMachine::_stack
    bytecode,     \* VirtualMachine::_bytecode (buffer and offset)
    currTicks,    \* SubSystem::_currTicks of the VM
    prevTicks,    \* SubSystem::_prevTicks of the VM
    nextTicks,    \* SubSystem::_nextTicks of the VM
    controls,     \* Input::_controls
    reqPartId,    \* Resources::_reqPartId
    curPartId,    \* Resources::_curPartId
    tick,         \* number of executed ticks so far (the N of "tick N")
    \* observations of the run, read by the properties only
    runnable,     \* threads active and unpaused after the last scheduling pass
    ran,          \* threads that executed an instruction in the current tick
    done,         \* threads whose slice of the current tick has ended
    reqTick,      \* per thread: tick in which its pending pc request was written
    killAllTick,  \* tick of the last reset(0,63,2), -1 if none
    revived,      \* targets of init executed after that reset, same tick
    switchTick,   \* tick after which setByteCode last ran, -1 at boot
    yieldedAt,    \* per thread: offset after the yield that ended its slice
    resumeAt,     \* per thread: offset it must resume at in the current tick
    slice,        \* calls, rets and djnz completed in the running slice, and
                  \* the stack depth the slice was entered with
    audio,        \* Audio: the mixer's channels, the pending sound samples,
                  \* the music module, the three mutexes and what each
                  \* thread of control is doing in the audio subsystem
    video         \* Video: the page polygons are drawn to and the calls of
                  \* renderPolygons still to be made for the current draw

vm == << threads, registers, stack, bytecode >>
clock == << currTicks, prevTicks, nextTicks >>
parts == << reqPartId, curPartId >>
hist == << runnable, ran, done, reqTick, killAllTick, revived, switchTick,
           yieldedAt, resumeAt, slice >>
devices == << audio, video >>
vars == << pos, cur, vm, clock, controls, parts, tick, hist, devices >>

NoThreads == [t \in ThreadIds |-> -1]
\* nothing executed yet in a slice entered with the stack at the given depth
Slice0(depth) == [calls |-> 0, rets |-> 0, djnzs |-> 0, depth |-> depth]

(***************************************************************************)
(* Audio (audio.cc, mixer.cc, sound.cc, music.cc).  The mixer owns four    *)
(* channel descriptors, the sound subsystem four pending samples and the   *)
(* music subsystem the module being played; each of the three has its own  *)
(* mutex (SubSystem::_mutex).  A sample's data pointer, lengths and loop   *)
(* are those of its resource and follow sample_id.                         *)
(***************************************************************************)
ChannelIds == 0 .. 3
NoId == 65535
AudioChannel0 == [ active |-> FALSE, volume |-> 0, sample_id |-> NoId ]
AudioSample0 == [ sample_id |-> NoId, frequency |-> 0, volume |-> 0 ]
MusicModule0 ==
    [ music_id |-> NoId, music_ticks |-> 0, data_pos |-> 0, seq_index |-> 0,
      seq_count |-> 0 ]
Mutexes == {"mixer", "sound", "music"}
\* the threads of control: Engine::main, the SDL timer thread and the SDL
\* audio thread
Contexts == {"main", "timer", "mix"}

\* after construction: nothing plays, no mutex is held, no thread of control
\* is inside the audio subsystem, the audio device and the timers are off
Audio0 ==
    [ channels |-> [c \in ChannelIds |-> AudioChannel0],
      samples  |-> [c \in ChannelIds |-> AudioSample0],
      module   |-> MusicModule0,
      mutex    |-> [x \in Mutexes |-> "none"],
      todo     |-> [x \in Contexts |-> << >>],
      device   |-> FALSE,
      timers   |-> {},
      phase    |-> "off",
      calls    |-> 0 ]

(***************************************************************************)
(* Video (video.cc).  A page is 200 rows of 160 bytes, two pixels a byte,  *)
(* the even pixel in the high nibble.  The model keeps the page polygons   *)
(* are drawn to (Video::_page0): the byte every position held before the   *)
(* draw (fill) and the bytes written since (data, by offset), with the     *)
(* row each write was made for (writes).  calls are the invocations of     *)
(* renderPolygons still to be made, innermost first; undefined is set when *)
(* the fill reads the reciprocal table outside its 1024 entries.           *)
(***************************************************************************)
XMIN == 0
YMIN == 0
XMAX == 319
YMAX == 199
PPB == 2
BPL == 160
PageSize == 32000
EmptyMap == [o \in {} |-> 0]
Video0 ==
    [ fill |-> 0, data |-> EmptyMap, writes |-> {}, calls |-> << >>,
      undefined |-> FALSE ]
\* Video::reset: every byte of every page is 0
video_reset(v) == Video0

(***************************************************************************)
(* State after construction (Engine::Engine): the thread table is value-   *)
(* initialised by the member initialisers of Thread, everything else is 0. *)
(***************************************************************************)
Thread0 ==
    [ current_pc |-> 0, requested_pc |-> 0, current_state |-> 0,
      requested_state |-> 0, opcode |-> OPCODE_NONE, yield |-> FALSE ]

Controls0 ==
    [ mask |-> 0, horz |-> 0, vert |-> 0, btns |-> 0, input |-> 0,
      quit |-> FALSE, pause |-> FALSE ]

Init ==
    /\ pos = "boot"
    /\ cur = 0
    /\ threads = [t \in ThreadIds |-> Thread0]
    /\ registers = [r \in RegisterIds |-> 0]
    /\ stack = [array |-> [i \in 0 .. (StackSize - 1) |-> 0], index |-> 0]
    /\ bytecode = [buffer |-> NullBuffer, offset |-> 0]
    /\ currTicks = 0
    /\ prevTicks = 0
    /\ nextTicks = 0
    /\ controls = Controls0
    /\ reqPartId = 0
    /\ curPartId = 0
    /\ tick = 0
    /\ runnable = {}
    /\ ran = {}
    /\ done = {}
    /\ reqTick = NoThreads
    /\ killAllTick = -1
    /\ revived = {}
    /\ switchTick = -1
    /\ yieldedAt = NoThreads
    /\ resumeAt = NoThreads
    /\ slice = Slice0(0)
    /\ audio = Audio0
    /\ video = Video0

(***************************************************************************)
(* ByteCode cursor (intern.h): a null buffer reads 0 and never moves.  The  *)
(* cursor is a bare pointer: past the end of the segment it reads whatever *)
(* the resource memory holds there, m.beyond in every byte.                *)
(***************************************************************************)
CodeByte(buffer, offset) == Images[buffer][offset + 1]

\* the byte at an offset of the segment, or of the memory after it
CodeAt(m, offset) ==
    IF offset < Len(Images[m.buffer]) THEN CodeByte(m.buffer, offset)
    ELSE m.beyond

\* the byte k positions after the cursor
ByteAt(m, k) ==
    IF m.buffer = NullBuffer THEN 0 ELSE CodeAt(m, m.offset + k)

\* the big-endian word k positions after the cursor
WordAt(m, k) ==
    IF m.buffer = NullBuffer THEN 0
    ELSE CodeAt(m, m.offset + k) * 256 + CodeAt(m, m.offset + k + 1)

\* the cursor after fetching n bytes
Advance(m, n) ==
    IF m.buffer = NullBuffer THEN m ELSE [m EXCEPT !.offset = @ + n]

seek(m, offset) ==
    IF m.buffer = NullBuffer THEN m ELSE [m EXCEPT !.offset = offset]

\* log_fatal throws Panic: the instruction stops where it is
Fatal(m) == [m EXCEPT !.fatal = TRUE]

(***************************************************************************)
(* Instructions.  m is the VM while one instruction runs: the thread       *)
(* table, registers, stack, the cursor (buffer, offset), the part request  *)
(* of the resources and the Panic flag; t is the executing thread.         *)
(***************************************************************************)
op_movi(m, t) ==
    LET dst == ByteAt(m, 0)
        imm == WordAt(m, 1)
    IN  [Advance(m, 3) EXCEPT !.registers[dst] = imm]

op_movr(m, t) ==
    LET dst == ByteAt(m, 0)
        src == ByteAt(m, 1)
    IN  [Advance(m, 2) EXCEPT !.registers[dst] = m.registers[src]]

op_addr(m, t) ==
    LET dst == ByteAt(m, 0)
        src == ByteAt(m, 1)
    IN  [Advance(m, 2) EXCEPT !.registers[dst] = U16(@ + m.registers[src])]

op_addi(m, t) ==
    LET dst == ByteAt(m, 0)
        imm == WordAt(m, 1)
    IN  [Advance(m, 3) EXCEPT !.registers[dst] = U16(@ + imm)]

op_subr(m, t) ==
    LET dst == ByteAt(m, 0)
        src == ByteAt(m, 1)
    IN  [Advance(m, 2) EXCEPT !.registers[dst] = U16(@ + 65536 - m.registers[src])]

op_jump(m, t) ==
    LET loc == WordAt(m, 0)
    IN  seek(Advance(m, 2), loc)

\* static_cast<int16_t> of a 16-bit register value
AsInt16(u) == IF u >= 32768 THEN u - 65536 ELSE u

\* variant of the predicates that compares the unsigned values
CompareUnsigned(compare, op1, op2) ==
    CASE compare = 0 -> op1 = op2
      [] compare = 1 -> op1 # op2
      [] compare = 2 -> op1 > op2
      [] compare = 3 -> op1 >= op2
      [] compare = 4 -> op1 < op2
      [] compare = 5 -> op1 <= op2

\* the six predicates of op_cjmp on two 16-bit values
Compare(compare, op1, op2) ==
    CASE compare = 0 -> AsInt16(op1) = AsInt16(op2)
      [] compare = 1 -> AsInt16(op1) # AsInt16(op2)
      [] compare = 2 -> AsInt16(op1) > AsInt16(op2)
      [] compare = 3 -> AsInt16(op1) >= AsInt16(op2)
      [] compare = 4 -> AsInt16(op1) < AsInt16(op2)
      [] compare = 5 -> AsInt16(op1) <= AsInt16(op2)

\* op_cjmp; BYPASS_PROTECTION is defined: in GAME_PART0 the comparison
\* eq [$29],[$1e] copies the expected symbols and always jumps
op_cjmp(m, t) ==
    LET variant == ByteAt(m, 0)
        compare == variant % 8
        rg1     == ByteAt(m, 1)
        op1     == m.registers[rg1]
        isReg   == (variant \div 128) % 2 = 1
        isWord  == (variant \div 64) % 2 = 1
        rg2     == IF isReg THEN ByteAt(m, 2) ELSE 0
        op2     == IF isReg THEN m.registers[rg2]
                   ELSE IF isWord THEN WordAt(m, 2) ELSE ByteAt(m, 2)
        len     == IF ~isReg /\ isWord THEN 6 ELSE 5
        loc     == WordAt(m, len - 2)
        n       == Advance(m, len)
    IN  IF compare = 0 /\ rg1 = 41 /\ rg2 = 30 /\ m.curPartId = GAME_PART0
        THEN seek([n EXCEPT !.registers =
                      [r \in RegisterIds |->
                          CASE r \in 41 .. 44 -> m.registers[r - 11]
                            [] r = 50 -> 6
                            [] r = 100 -> 20
                            [] OTHER -> m.registers[r]]], loc)
        ELSE IF compare > 5 THEN Fatal(n)
        ELSE IF Compare(compare, op1, op2) THEN seek(n, loc) ELSE n

\* variant of op_djnz that tests the register before decrementing it
op_djnz_post(m, t) ==
    LET dst == ByteAt(m, 0)
        imm == WordAt(m, 1)
        n   == Advance(m, 3)
        dec == [n EXCEPT !.registers[dst] = U16(m.registers[dst] + 65535)]
    IN  IF m.registers[dst] # 0 THEN seek(dec, imm) ELSE dec

op_djnz(m, t) ==
    LET dst == ByteAt(m, 0)
        imm == WordAt(m, 1)
        n   == Advance(m, 3)
        val == U16(m.registers[dst] + 65535)
        dec == [n EXCEPT !.registers[dst] = val]
    IN  IF val # 0 THEN seek(dec, imm) ELSE dec

\* variant of op_call that drops the push when the stack is full
op_call_clamped(m, t) ==
    LET loc == WordAt(m, 0)
        n   == Advance(m, 2)
    IN  IF m.stack.index >= StackSize THEN seek(n, loc)
        ELSE seek([n EXCEPT !.stack.array[m.stack.index] = n.offset,
                            !.stack.index = @ + 1], loc)

\* variant of op_call that pushes the offset of its operand
op_call_early(m, t) ==
    IF m.stack.index >= StackSize THEN Fatal(m)
    ELSE LET loc == WordAt(m, 0)
             n   == Advance(m, 2)
         IN  seek([n EXCEPT !.stack.array[m.stack.index] = m.offset,
                            !.stack.index = @ + 1], loc)

op_call(m, t) ==
    IF m.stack.index >= StackSize THEN Fatal(m)
    ELSE LET loc == WordAt(m, 0)
             n   == Advance(m, 2)
         IN  seek([n EXCEPT !.stack.array[m.stack.index] = n.offset,
                            !.stack.index = @ + 1], loc)

\* variant of op_ret that leaves the return address on the stack
op_ret_keep(m, t) ==
    IF m.stack.index = 0 THEN Fatal(m)
    ELSE seek(m, m.stack.array[m.stack.index - 1])

op_ret(m, t) ==
    IF m.stack.index = 0 THEN Fatal(m)
    ELSE LET loc == m.stack.array[m.stack.index - 1]
         IN  seek([m EXCEPT !.stack.index = @ - 1], loc)

\* variant of op_init that applies the pc at once
op_init_immediate(m, t) ==
    LET tid == ByteAt(m, 0)
        imm == WordAt(m, 1)
    IN  [Advance(m, 3) EXCEPT !.threads[tid].requested_pc = imm,
                              !.threads[tid].current_pc = imm]

\* variant of op_init that leaves a pending kill request in place
op_init_keep_kill(m, t) ==
    LET tid == ByteAt(m, 0)
        imm == WordAt(m, 1)
    IN  IF m.threads[tid].requested_pc = PC_KILL
        THEN Advance(m, 3)
        ELSE [Advance(m, 3) EXCEPT !.threads[tid].requested_pc = imm]

\* a store through _threads[slot] with slot past the table: the slot, the
\* member and the value stored
WildStore(slot, member, value) == << slot, member, value >>

\* tid is a uint8_t and indexes _threads[64] unchecked
op_init(m, t) ==
    LET tid == ByteAt(m, 0)
        imm == WordAt(m, 1)
    IN  IF tid \in ThreadIds
        THEN [Advance(m, 3) EXCEPT !.threads[tid].requested_pc = imm]
        ELSE [Advance(m, 3) EXCEPT
                 !.wild = @ \cup {WildStore(tid, "requested_pc", imm)}]

\* variant of op_kill that only yields
op_kill_no_seek(m, t) == [m EXCEPT !.threads[t].yield = TRUE]

op_kill(m, t) ==
    [seek(m, PC_INACTIVE) EXCEPT !.threads[t].yield = TRUE]

\* variant of op_yield that leaves the cursor on the yield opcode
op_yield_rewind(m, t) ==
    [seek(m, m.offset - 1) EXCEPT !.threads[t].yield = TRUE]

op_yield(m, t) ==
    [m EXCEPT !.threads[t].yield = TRUE]

\* variant of op_reset whose range excludes its end
op_reset_exclusive(m, t) ==
    LET begin == ByteAt(m, 0)
        end   == ByteAt(m, 1)
        state == ByteAt(m, 2)
        n     == Advance(m, 3)
    IN  CASE state \in {0, 1} ->
               [n EXCEPT !.threads = [i \in ThreadIds |->
                   IF begin <= i /\ i < end
                   THEN [@[i] EXCEPT !.requested_state = state] ELSE @[i]]]
          [] state = 2 ->
               [n EXCEPT !.threads = [i \in ThreadIds |->
                   IF begin <= i /\ i < end
                   THEN [@[i] EXCEPT !.requested_pc = PC_KILL] ELSE @[i]]]
          [] OTHER -> Fatal(n)

\* variant of op_reset whose pause/resume takes effect at once
op_reset_immediate(m, t) ==
    LET begin == ByteAt(m, 0)
        end   == ByteAt(m, 1)
        state == ByteAt(m, 2)
        n     == Advance(m, 3)
    IN  CASE state \in {0, 1} ->
               [n EXCEPT !.threads = [i \in ThreadIds |->
                   IF begin <= i /\ i <= end
                   THEN [@[i] EXCEPT !.requested_state = state,
                                     !.current_state = state] ELSE @[i]]]
          [] state = 2 ->
               [n EXCEPT !.threads = [i \in ThreadIds |->
                   IF begin <= i /\ i <= end
                   THEN [@[i] EXCEPT !.requested_pc = PC_KILL] ELSE @[i]]]
          [] OTHER -> Fatal(n)

\* variant of op_reset whose kill request also resumes the thread
op_reset_kill_resumes(m, t) ==
    LET begin == ByteAt(m, 0)
        end   == ByteAt(m, 1)
        state == ByteAt(m, 2)
        n     == Advance(m, 3)
    IN  CASE state \in {0, 1} ->
               [n EXCEPT !.threads = [i \in ThreadIds |->
                   IF begin <= i /\ i <= end
                   THEN [@[i] EXCEPT !.requested_state = state] ELSE @[i]]]
          [] state = 2 ->
               [n EXCEPT !.threads = [i \in ThreadIds |->
                   IF begin <= i /\ i <= end
                   THEN [@[i] EXCEPT !.requested_pc = PC_KILL,
                                     !.requested_state = 0] ELSE @[i]]]
          [] OTHER -> Fatal(n)

\* begin and end are uint8_t and the loop indexes _threads[64] unchecked
op_reset(m, t) ==
    LET begin == ByteAt(m, 0)
        end   == ByteAt(m, 1)
        state == ByteAt(m, 2)
        n     == Advance(m, 3)
        past  == (begin .. end) \ ThreadIds
    IN  CASE state \in {0, 1} ->
               [n EXCEPT !.threads = [i \in ThreadIds |->
                   IF begin <= i /\ i <= end
                   THEN [@[i] EXCEPT !.requested_state = state] ELSE @[i]],
                         !.wild = @ \cup
                   { WildStore(i, "requested_state", state) : i \in past }]
          [] state = 2 ->
               [n EXCEPT !.threads = [i \in ThreadIds |->
                   IF begin <= i /\ i <= end
                   THEN [@[i] EXCEPT !.requested_pc = PC_KILL] ELSE @[i]],
                         !.wild = @ \cup
                   { WildStore(i, "requested_pc", PC_KILL) : i \in past }]
          [] OTHER -> Fatal(n)

\* Engine::loadResource -> Resources::loadResource: an id past the resource
\* table is a part request; a plain resource load leaves the VM alone
op_loadres(m, t) ==
    LET id == WordAt(m, 0)
        n  == Advance(m, 2)
    IN  IF id >= NumResources THEN [n EXCEPT !.reqPartId = id] ELSE n

\* variant of op_invalid that ignores the byte
op_invalid_skip(m, t) == m

op_invalid(m, t) == Fatal(m)

(***************************************************************************)
(* Sound and music instructions.  The resource table is the one the        *)
(* memlist gave: entry id has a type and a state, ids past the table have  *)
(* no entry (Resources::getResource returns nullptr).                      *)
(***************************************************************************)
ResourceTable ==
    << [type |-> "RT_SOUND", state |-> "RS_LOADED"],
       [type |-> "RT_SOUND", state |-> "RS_LOADED"],
       [type |-> "RT_SOUND", state |-> "RS_NOT_NEEDED"],
       [type |-> "RT_MUSIC", state |-> "RS_LOADED"],
       [type |-> "RT_MUSIC", state |-> "RS_NOT_NEEDED"],
       [type |-> "RT_BITMAP", state |-> "RS_LOADED"] >>
NoResource == [type |-> "nullptr", state |-> "nullptr"]
getResource(id) ==
    IF id < Len(ResourceTable) THEN ResourceTable[id + 1] ELSE NoResource
\* the resource can be played as the given type
Playable(id, type) ==
    getResource(id).type = type /\ getResource(id).state = "RS_LOADED"
\* what load_module reads in a music resource: the tick period at 0x00 and
\* the length of the sequence table at 0x3e
MusicData(id) == [ music_ticks |-> 15000 + id, seq_count |-> 2 ]

\* Mixer::stopAllChannels
stopAllChannels(a) ==
    [a EXCEPT !.channels = [c \in ChannelIds |-> [@[c] EXCEPT !.active = FALSE]]]

\* Mixer::playChannel and Mixer::stopChannel (index is a channel id)
playChannel(a, index, sample) ==
    IF index \in ChannelIds
    THEN [a EXCEPT !.channels[index] =
            [active |-> TRUE, volume |-> sample.volume,
             sample_id |-> sample.sample_id]]
    ELSE a
stopChannel(a, index) ==
    IF index \in ChannelIds THEN [a EXCEPT !.channels[index].active = FALSE]
    ELSE a

\* get_volume of playSound and playMusicUnlocked
get_volume(volume) == IF volume > 63 THEN 63 ELSE volume

\* Sound::playSound: the sample is left pending for the sound timer; the
\* frequency is kept as its index in Paula::frequencyTable
playSound(a, sound_id, channel, volume, pitch) ==
    IF Playable(sound_id, "RT_SOUND")
    THEN [a EXCEPT !.samples[channel % 4] =
            [sample_id |-> sound_id,
             frequency |-> IF pitch >= 40 THEN 0 ELSE pitch,
             volume |-> get_volume(volume)]]
    ELSE a

\* Music::stopMusicUnlocked
stopMusicUnlocked(a) ==
    IF a.module.music_id # NoId
    THEN [stopAllChannels(a) EXCEPT !.module = MusicModule0]
    ELSE a

\* Music::playMusicUnlocked (play_music, load_module)
playMusicUnlocked(a, music_id, index, ticks) ==
    IF Playable(music_id, "RT_MUSIC")
    THEN [a EXCEPT !.module =
            [music_id |-> music_id,
             music_ticks |-> IF ticks # 0 THEN ticks
                             ELSE MusicData(music_id).music_ticks,
             data_pos |-> 0,
             seq_index |-> index,
             seq_count |-> MusicData(music_id).seq_count]]
    ELSE a

\* Music::playMusic
playMusic(a, id, index, ticks) ==
    LET music_id == IF id = 0 THEN NoId ELSE id
    IN  IF music_id # NoId
        THEN playMusicUnlocked(stopMusicUnlocked(a), music_id, index, ticks)
        ELSE IF index # 0 \/ ticks # 0
        THEN [a EXCEPT !.module.seq_index = IF index # 0 THEN index ELSE @,
                       !.module.music_ticks = IF ticks # 0 THEN ticks ELSE @]
        ELSE stopMusicUnlocked(a)

\* Audio::reset: Mixer::reset, Sound::reset, Music::reset
audio_reset(a) ==
    stopMusicUnlocked(
        [stopAllChannels(a) EXCEPT !.samples = [c \in ChannelIds |-> AudioSample0]])

op_sound(m, t) ==
    LET sound_id  == WordAt(m, 0)
        frequency == ByteAt(m, 2)
        volume    == ByteAt(m, 3)
        channel   == ByteAt(m, 4)
    IN  [Advance(m, 5) EXCEPT
            !.audio = playSound(@, sound_id, channel, volume, frequency)]

op_music(m, t) ==
    LET music_id == WordAt(m, 0)
        delay    == WordAt(m, 2)
        position == ByteAt(m, 4)
    IN  [Advance(m, 5) EXCEPT
            !.audio = playMusic(@, music_id, position, delay)]

(***************************************************************************)
(* Polygons (Video::renderPolygon, Video::renderPolygons).                 *)
(***************************************************************************)
\* int16_t conversion, and the division of C++, which truncates
Int16(n) == AsInt16(U16(n))
CDiv(a, b) == IF a >= 0 THEN a \div b ELSE -((-a) \div b)

PageByte(v, o) == IF o \in DOMAIN v.data THEN v.data[o] ELSE v.fill

\* variant of LineBytes that writes both pixels of the first and of the last
\* byte
LineBytes_whole(x1, x2, yl) ==
    LET offset == U16((yl * BPL) + CDiv(x1, PPB))
        width  == U16(CDiv(x2, PPB) - CDiv(x1, PPB) + 1)
    IN  [k \in 1 .. width |-> << offset + k - 1, "both" >>]

\* the bytes a line from x1 to x2 goes through, in the order of the writes:
\* the low nibble of the first byte when x1 is odd, width whole bytes, the
\* high nibble of the last byte when x2 is even (width is a uint16_t)
LineBytes(x1, x2, yl) ==
    LET offset == U16((yl * BPL) + CDiv(x1, PPB))
        width0 == U16(CDiv(x2, PPB) - CDiv(x1, PPB) + 1)
        mask1  == x1 % 2 # 0
        mask2  == x2 % 2 = 0
        width1 == IF mask1 THEN U16(width0 - 1) ELSE width0
        width  == IF mask2 THEN U16(width1 - 1) ELSE width1
        start  == IF mask1 THEN offset + 1 ELSE offset
    IN  (IF mask1 THEN << << offset, "lo" >> >> ELSE << >>)
            \o [k \in 1 .. width |-> << start + k - 1, "both" >>]
            \o (IF mask2 THEN << << start + width, "hi" >> >> ELSE << >>)

\* the byte render_line_plain, render_line_vcopy and render_line_blend leave
\* where old was; the source of the copy is page 0, which is the page drawn
\* to after Video::reset
PlainByte(old, part, color) ==
    LET c == color % 16
    IN  CASE part = "lo" -> ((old \div 16) * 16) + c
          [] part = "hi" -> (c * 16) + (old % 16)
          [] OTHER -> (c * 16) + c
VcopyByte(old, part, src) ==
    CASE part = "lo" -> ((old \div 16) * 16) + (src % 16)
      [] part = "hi" -> ((src \div 16) * 16) + (old % 16)
      [] OTHER -> src
Bit3(nibble) == IF nibble >= 8 THEN nibble ELSE nibble + 8
BlendByte(old, part) ==
    CASE part = "lo" -> ((old \div 16) * 16) + Bit3(old % 16)
      [] part = "hi" -> (Bit3(old \div 16) * 16) + (old % 16)
      [] OTHER -> (Bit3(old \div 16) * 16) + Bit3(old % 16)

\* get_line_proc and the three render_line procedures
\* the statements of a loop run one after the other: w, the page after one
\* turn, is computed before the next turn e starts
Then(w, e) == IF w = w THEN e ELSE w

\* the writes of one line; its bytes are consecutive, each is written once,
\* and the source of a copy is the byte being written
write_bytes(v, bytes, yl, color) ==
    LET first   == IF bytes = << >> THEN 0 ELSE bytes[1][1]
        offsets == { bytes[k][1] : k \in DOMAIN bytes }
        new(o)  == LET part == bytes[o - first + 1][2]
                       old  == PageByte(v, o)
                   IN  IF color < 16 THEN PlainByte(old, part, color)
                       ELSE IF color > 16 THEN VcopyByte(old, part, old)
                       ELSE BlendByte(old, part)
    IN  [v EXCEPT !.data = [o \in offsets \cup DOMAIN v.data |->
                              IF o \in offsets THEN new(o) ELSE v.data[o]],
                  !.writes = @ \cup { << yl, bytes[k][1], bytes[k][2] >> :
                                      k \in DOMAIN bytes }]
render_line(v, x1, x2, yl, color) ==
    write_bytes(v, LineBytes(x1, x2, yl), yl, color)

\* variant of draw_point that draws the next pixel too
draw_point_pair(v, xp, yp, color) ==
    IF xp > XMAX \/ xp < XMIN \/ yp > YMAX \/ yp < YMIN THEN v
    ELSE render_line(v, xp, xp + 1, yp, color)

draw_point(v, xp, yp, color) ==
    IF xp > XMAX \/ xp < XMIN \/ yp > YMAX \/ yp < YMIN THEN v
    ELSE render_line(v, xp, xp, yp, color)

\* variant of draw_line that does not bring x2 back to XMAX
draw_line_unclipped(v, xa, xb, y, color) ==
    LET x1 == IF Int16(xa) > Int16(xb) THEN Int16(xb) ELSE Int16(xa)
        x2 == IF Int16(xa) > Int16(xb) THEN Int16(xa) ELSE Int16(xb)
        yl == Int16(y)
    IN  IF x1 > XMAX \/ x2 < XMIN \/ yl > YMAX \/ yl < YMIN THEN v
        ELSE render_line(v, IF x1 < XMIN THEN XMIN ELSE x1, x2, yl, color)

draw_line(v, xa, xb, y, color) ==
    LET x1 == IF Int16(xa) > Int16(xb) THEN Int16(xb) ELSE Int16(xa)
        x2 == IF Int16(xa) > Int16(xb) THEN Int16(xa) ELSE Int16(xb)
        yl == Int16(y)
    IN  IF x1 > XMAX \/ x2 < XMIN \/ yl > YMAX \/ yl < YMIN THEN v
        ELSE render_line(v, IF x1 < XMIN THEN XMIN ELSE x1,
                            IF x2 > XMAX THEN XMAX ELSE x2, yl, color)

\* Video::_interpolate as the constructor fills it, and calc_step
InterpolateIds == 0 .. 1023
interpolate(index) == IF index = 0 THEN 16384 ELSE 16384 \div index
calc_step(p1, p2) ==
    [ dy   |-> p2.y - p1.y,
      step |-> IF (p2.y - p1.y) \in InterpolateIds
               THEN (p2.x - p1.x) * interpolate(p2.y - p1.y) * 4 ELSE 0 ]

\* the do-while of fill_polygon: dy lines from yl on
RECURSIVE fill_rows(_, _, _, _, _, _, _, _)
fill_rows(v, xa, xb, yl, dy, step1, step2, color) ==
    LET w == draw_line(v, xa \div 65536, xb \div 65536, yl, color)
    IN  IF dy - 1 # 0
        THEN Then(w, fill_rows(w, xa + step1, xb + step2, yl + 1, dy - 1,
                               step1, step2, color))
        ELSE [ v |-> w, xa |-> xa + step1, xb |-> xb + step2, yl |-> yl + 1 ]

\* the while of fill_polygon: p1 goes up from points[i], p2 down from
\* points[j]; a dy outside the table leaves the rest undefined
RECURSIVE fill_edges(_, _, _, _, _, _, _, _, _)
fill_edges(v, points, i, j, count, xa, xb, yl, color) ==
    IF count = 0 THEN v
    ELSE LET s1  == calc_step(points[i + 1], points[i + 2])
             s2  == calc_step(points[j + 1], points[j])
             dy  == s2.dy
             xa0 == ((xa \div 65536) * 65536) + 32768
             xb0 == ((xb \div 65536) * 65536) + 32767
         IN  IF s1.dy \notin InterpolateIds \/ dy \notin InterpolateIds
             THEN [v EXCEPT !.undefined = TRUE]
             ELSE IF dy # 0
             THEN LET r == fill_rows(v, xa0, xb0, yl, dy, s1.step, s2.step, color)
                  IN  Then(r, fill_edges(r.v, points, i + 1, j - 1,
                                         (count + 254) % 256,
                                         r.xa, r.xb, r.yl, color))
             ELSE fill_edges(v, points, i + 1, j - 1, (count + 254) % 256,
                             xa0 + s1.step, xb0 + s2.step, yl, color)

\* Video::renderPolygon (fill_polygon)
renderPolygon(v, polygon, position, color) ==
    LET half_bbw == polygon.bbw \div 2
        half_bbh == polygon.bbh \div 2
        x1 == Int16(position.x - half_bbw)
        x2 == Int16(position.x + half_bbw)
        y1 == Int16(position.y - half_bbh)
        y2 == Int16(position.y + half_bbh)
        count == polygon.count
    IN  IF x1 > XMAX \/ x2 < XMIN \/ y1 > YMAX \/ y2 < YMIN THEN v
        ELSE IF /\ count = 4
                /\ \/ polygon.bbw = 1 /\ polygon.bbh <= 1
                   \/ polygon.bbh = 1 /\ polygon.bbw <= 1
        THEN draw_point(v, position.x, position.y, color)
        ELSE fill_edges(v, polygon.points, 0, count - 1, count,
                        (x1 + polygon.points[1].x) * 65536,
                        (x1 + polygon.points[count].x) * 65536, y1, color)

\* the polygon segment of the part (Resources::getPolygonData(1)):
\*   0 a leaf of 4 points in a box of 1 by 1, colour 5
\*  12 a leaf of 4 points in a box of 8 by 4, colour 3
\*  24 a leaf of 4 points, a wedge in a box of 8 by 4, colour 16 (blend)
\*  36 a descriptor that is neither a leaf nor a hierarchy
\*  38 a hierarchy at (-1,-1) of the leaf at 0, moved by (2,2), and of the
\*     leaf at 12, moved by (4,0), in colour 5
\*  52 a hierarchy whose only child is itself
\*  60 a leaf of 4 points in a box of 2 by 2, colour 17 (copy)
\*  72 a leaf of 4 points in a box of 2 by 1, colour 6
\*  84 the body of the leaf at 12 after a type byte of 67, which is neither
\*     the one of a leaf nor the one of a hierarchy
\*  96 the leaf at 12 with its points listed from the bottom row up
\* 108 a leaf of 4 points in a box of 8 by 20, colour 3
PolygonData ==
    << 197, 1, 1, 4,   0, 0,  0, 1,  1, 1,  1, 0,
       195, 8, 4, 4,   0, 0,  0, 4,  8, 4,  8, 0,
       208, 8, 4, 4,   4, 0,  0, 4,  8, 4,  4, 0,
       1, 0,
       2, 1, 1, 1,   0, 0, 2, 2,   128, 6, 4, 0, 5, 0,
       2, 0, 0, 0,   0, 26, 0, 0,
       209, 2, 2, 4,   0, 0,  0, 2,  2, 2,  2, 0,
       198, 2, 1, 4,   0, 0,  0, 1,  2, 1,  2, 0,
       67, 8, 4, 4,   0, 0,  0, 4,  8, 4,  8, 0,
       195, 8, 4, 4,   0, 4,  0, 0,  8, 0,  8, 4,
       195, 8, 20, 4,   0, 0,  0, 20,  8, 20,  8, 0 >>
\* the second segment is empty; whatever is read there is 0
PolyByte(buffer, o) ==
    IF buffer = 1 /\ o < Len(PolygonData) THEN PolygonData[o + 1] ELSE 0
PolyWord(buffer, o) == (PolyByte(buffer, o) * 256) + PolyByte(buffer, o + 1)

\* the recursion of renderPolygons the model follows
MaxDepth == 4

\* variant of read_and_fill_polygon_single that brings the position back
\* into the visible region first
read_and_fill_polygon_single_clamped(v, call, o, color) ==
    LET scaled(b) == (b * call.zoom) \div 64
        count == PolyByte(call.buffer, o + 2)
        clamp(n, max) == IF n < 0 THEN 0 ELSE IF n > max THEN max ELSE n
    IN  renderPolygon(v,
            [ bbw    |-> U16(scaled(PolyByte(call.buffer, o))),
              bbh    |-> U16(scaled(PolyByte(call.buffer, o + 1))),
              count  |-> count,
              points |-> [k \in 1 .. count |->
                            [x |-> Int16(scaled(PolyByte(call.buffer, o + 1 + (2 * k)))),
                             y |-> Int16(scaled(PolyByte(call.buffer, o + 2 + (2 * k))))]] ],
            [x |-> clamp(call.position.x, XMAX), y |-> clamp(call.position.y, YMAX)],
            color)

\* read_and_fill_polygon_single: the descriptor after its type byte
read_and_fill_polygon_single(v, call, o, color) ==
    LET scaled(b) == (b * call.zoom) \div 64
        count == PolyByte(call.buffer, o + 2)
    IN  renderPolygon(v,
            [ bbw    |-> U16(scaled(PolyByte(call.buffer, o))),
              bbh    |-> U16(scaled(PolyByte(call.buffer, o + 1))),
              count  |-> count,
              points |-> [k \in 1 .. count |->
                            [x |-> Int16(scaled(PolyByte(call.buffer, o + 1 + (2 * k)))),
                             y |-> Int16(scaled(PolyByte(call.buffer, o + 2 + (2 * k))))]] ],
            call.position, color)

\* the do-while of read_and_fill_polygon_hierarchy: the calls for the
\* children still to be read at o
RECURSIVE read_children(_, _, _, _)
read_children(call, parent_position, o, children) ==
    LET word      == PolyWord(call.buffer, o)
        child_x   == PolyByte(call.buffer, o + 2)
        child_y   == PolyByte(call.buffer, o + 3)
        coloured  == word >= 32768
        child     ==
            [ buffer   |-> call.buffer,
              offset   |-> U16((word % 32768) * 2),
              position |->
                [x |-> Int16(parent_position.x + ((child_x * call.zoom) \div 64)),
                 y |-> Int16(parent_position.y + ((child_y * call.zoom) \div 64))],
              zoom     |-> call.zoom,
              color    |-> IF coloured
                           THEN (PolyWord(call.buffer, o + 4) \div 256) % 128
                           ELSE 255,
              depth    |-> call.depth + 1 ]
    IN  << child >>
            \o (IF children - 1 # 0
                THEN read_children(call, parent_position,
                                   IF coloured THEN o + 6 ELSE o + 4, children - 1)
                ELSE << >>)

read_and_fill_polygon_hierarchy(call, o) ==
    read_children(call,
        [x |-> Int16(call.position.x - ((PolyByte(call.buffer, o) * call.zoom) \div 64)),
         y |-> Int16(call.position.y - ((PolyByte(call.buffer, o + 1) * call.zoom) \div 64))],
        o + 3, PolyByte(call.buffer, o + 2) + 1)

\* variant of Video::renderPolygons that takes a descriptor for a leaf as
\* soon as bit 6 of its type byte is set
renderPolygons_lenient(v) ==
    LET call == Head(v.calls)
        type == PolyByte(call.buffer, call.offset)
        w    == [v EXCEPT !.calls = Tail(@)]
    IN  IF (type \div 64) % 2 = 1
        THEN read_and_fill_polygon_single(w, call, call.offset + 1,
                 IF call.color >= 128 THEN type % 64 ELSE call.color)
        ELSE IF type % 64 = 2
        THEN [w EXCEPT !.calls = read_and_fill_polygon_hierarchy(call, call.offset + 1) \o @]
        ELSE w

\* Video::renderPolygons (read_and_fill_polygon) for the innermost call to
\* be made; the calls for the children of a hierarchy come before the rest
renderPolygons(v) ==
    LET call == Head(v.calls)
        type == PolyByte(call.buffer, call.offset)
        w    == [v EXCEPT !.calls = Tail(@)]
    IN  IF type >= 192
        THEN read_and_fill_polygon_single(w, call, call.offset + 1,
                 IF call.color >= 128 THEN type % 64 ELSE call.color)
        ELSE IF type % 64 = 2
        THEN [w EXCEPT !.calls = read_and_fill_polygon_hierarchy(call, call.offset + 1) \o @]
        ELSE w

\* Video::drawPolygons: the first call of renderPolygons
drawPolygons(v, buffer, offset, position, zoom) ==
    [v EXCEPT !.writes = {},
              !.calls = << [ buffer |-> buffer, offset |-> offset,
                             position |-> position, zoom |-> zoom,
                             color |-> 255, depth |-> 1 ] >>]

\* the calls made one after the other until none is left, or until the
\* recursion is deeper than the model follows it
RECURSIVE render_all(_)
render_all(v) ==
    IF v.calls = << >> \/ Head(v.calls).depth > MaxDepth THEN v
    ELSE render_all(renderPolygons(v))

op_poly1(m, t) ==
    LET opcode == m.threads[t].opcode
        bit(b) == (opcode \div b) % 2 = 1
        offset == U16(WordAt(m, 0) * 2)
        m1 == Advance(m, 2)
        x_long == ~bit(32) /\ ~bit(16)
        poly_x == IF bit(32) THEN (IF bit(16) THEN ByteAt(m1, 0) + 256
                                   ELSE ByteAt(m1, 0))
                  ELSE IF bit(16) THEN m.registers[ByteAt(m1, 0)]
                  ELSE WordAt(m1, 0)
        m2 == Advance(m1, IF x_long THEN 2 ELSE 1)
        y_long == ~bit(8) /\ ~bit(4)
        poly_y == IF bit(8) THEN ByteAt(m2, 0)
                  ELSE IF bit(4) THEN m.registers[ByteAt(m2, 0)]
                  ELSE WordAt(m2, 0)
        m3 == Advance(m2, IF y_long THEN 2 ELSE 1)
        zoom == IF bit(2) THEN (IF bit(1) THEN 64 ELSE ByteAt(m3, 0))
                ELSE IF bit(1) THEN m.registers[ByteAt(m3, 0)]
                ELSE 64
        m4 == Advance(m3, IF bit(2) = bit(1) THEN 0 ELSE 1)
        polygonDataIndex == IF bit(2) /\ bit(1) THEN 2 ELSE 1
    IN  [m4 EXCEPT !.video =
            render_all(drawPolygons(@, polygonDataIndex, offset,
                                    [x |-> Int16(poly_x), y |-> Int16(poly_y)],
                                    zoom))]

op_poly2(m, t) ==
    LET offset == U16(((m.threads[t].opcode * 256) + ByteAt(m, 0)) * 2)
        poly_x == ByteAt(m, 1)
        poly_y == ByteAt(m, 2)
        h      == poly_y - 199
    IN  [Advance(m, 3) EXCEPT !.video =
            render_all(drawPolygons(@, 1, offset,
                                    IF h > 0 THEN [x |-> Int16(poly_x + h), y |-> 199]
                                    ELSE [x |-> poly_x, y |-> poly_y],
                                    64))]

\* the switch of run_one_thread on the opcode just fetched
Dispatch(m, t) ==
    LET opcode == m.threads[t].opcode
    IN  CASE opcode = 0 -> op_movi(m, t)
          [] opcode = 1 -> op_movr(m, t)
          [] opcode = 2 -> op_addr(m, t)
          [] opcode = 3 -> op_addi(m, t)
          [] opcode = 4 -> op_call(m, t)
          [] opcode = 5 -> op_ret(m, t)
          [] opcode = 6 -> op_yield(m, t)
          [] opcode = 7 -> op_jump(m, t)
          [] opcode = 8 -> op_init(m, t)
          [] opcode = 9 -> op_djnz(m, t)
          [] opcode = 10 -> op_cjmp(m, t)
          [] opcode = 12 -> op_reset(m, t)
          [] opcode = 17 -> op_kill(m, t)
          [] opcode = 19 -> op_subr(m, t)
          [] opcode = 24 -> op_sound(m, t)
          [] opcode = 25 -> op_loadres(m, t)
          [] opcode = 26 -> op_music(m, t)
          [] opcode \in 64 .. 127 -> op_poly1(m, t)
          [] opcode \in 128 .. 255 -> op_poly2(m, t)
          [] opcode \in OPCODE_INVALID .. OPCODE_NONE -> op_invalid(m, t)

\* thread.opcode = _bytecode.fetchByte(), then the switch
FetchExecute(m, t) ==
    Dispatch([Advance(m, 1) EXCEPT !.threads[t].opcode = ByteAt(m, 0)], t)

\* layout of struct Thread (vm.h 85-94): uint32_t thread_id, uint16_t
\* current_pc, requested_pc, uint8_t current_state, requested_state, opcode,
\* bool yield; _registers (two bytes each) follows _threads in the object
ThreadBytes == 12
RequestedPcAt == 6
RequestedStateAt == 9

\* the register that holds the given byte of the given slot past the table
LandsIn(slot, at) == (((slot - NumThreads) * ThreadBytes) + at) \div 2

\* the stores past the table land in the member that follows it: a pc in a
\* whole register, a state in the high byte of a register (little endian);
\* stores that fall after the registers are not followed
Landed(m) ==
    [m EXCEPT !.registers = [r \in RegisterIds |->
        IF \E w \in m.wild : w[2] = "requested_pc" /\ LandsIn(w[1], RequestedPcAt) = r
        THEN (CHOOSE w \in m.wild :
                 w[2] = "requested_pc" /\ LandsIn(w[1], RequestedPcAt) = r)[3]
        ELSE IF \E w \in m.wild :
                  w[2] = "requested_state" /\ LandsIn(w[1], RequestedStateAt) = r
        THEN (@[r] % 256) + (256 * (CHOOSE w \in m.wild :
                 w[2] = "requested_state" /\ LandsIn(w[1], RequestedStateAt) = r)[3])
        ELSE @[r]]]

\* what an instruction leaves behind: its effect, or, when it stored past
\* the thread table (undefined behaviour), one of: the stores landed in the
\* neighbouring member, the stores had no visible effect, anything else
Outcomes(m) ==
    IF m.wild = {} THEN {m}
    ELSE {Landed(m), m, [m EXCEPT !.undefined = TRUE]}

\* the VM as one record, for the instruction operators
Machine ==
    [ threads |-> threads, registers |-> registers, stack |-> stack,
      buffer |-> bytecode.buffer, offset |-> bytecode.offset,
      reqPartId |-> reqPartId, curPartId |-> curPartId, audio |-> audio,
      video |-> video, beyond |-> 0, fatal |-> FALSE, wild |-> {},
      undefined |-> FALSE ]

(***************************************************************************)
(* VirtualMachine::reset and VirtualMachine::setByteCode                   *)
(***************************************************************************)
\* the value time(nullptr) leaves in the random seed register
Seeds == {15420}

\* registers after VirtualMachine::reset (this build defines
\* OUT_OF_THIS_WORLD and BYPASS_PROTECTION, config.h)
ResetRegisters(seed) ==
    [r \in RegisterIds |->
        CASE r = VM_VARIABLE_RANDOM_SEED -> seed
          [] r = 228 -> 20
          [] r = 84 -> 129
          [] r = 188 -> 16
          [] r = 198 -> 128
          [] r = 220 -> 33
          [] r = 242 -> 4000
          [] OTHER -> 0]

\* variant of reset_threads that keeps the pending requests
reset_threads_keep_requests(ths) ==
    [t \in ThreadIds |->
        [ current_pc      |-> IF t = 0 THEN 0 ELSE PC_INACTIVE,
          requested_pc    |-> ths[t].requested_pc,
          current_state   |-> 0,
          requested_state |-> ths[t].requested_state,
          opcode          |-> OPCODE_NONE,
          yield           |-> FALSE ]]

\* reset_threads: every slot inactive and unpaused, thread 0 at offset 0
reset_threads(ths) ==
    [t \in ThreadIds |->
        [ current_pc      |-> IF t = 0 THEN 0 ELSE PC_INACTIVE,
          requested_pc    |-> PC_INACTIVE,
          current_state   |-> 0,
          requested_state |-> 0,
          opcode          |-> OPCODE_NONE,
          yield           |-> FALSE ]]

\* variant of reset_registers that clears every register
reset_registers_clear(regs) == [r \in RegisterIds |-> 0]

\* reset_registers: each register is or-ed with zero
reset_registers(regs) == [r \in RegisterIds |-> regs[r]]

\* reset_stack: each entry is and-ed with zero, the index is cleared
reset_stack(stk) ==
    [array |-> [i \in 0 .. (StackSize - 1) |-> 0], index |-> 0]

\* setByteCode(image): installs the image, then the three resets
setByteCode(image) ==
    /\ bytecode' = [buffer |-> image, offset |-> 0]
    /\ threads' = reset_threads(threads)
    /\ registers' = reset_registers(registers)
    /\ stack' = reset_stack(stack)

(***************************************************************************)
(* Engine::main                                                            *)
(***************************************************************************)
\* Engine::reset: every subsystem is reset, then initPart(GAME_PART1)
\* (SKIP_GAME_PART0 is defined); the part's bytecode comes from the data files
EngineReset ==
    /\ pos = "boot"
    /\ \E seed \in Seeds, image \in BootImageIds :
          /\ bytecode' = [buffer |-> image, offset |-> 0]
          /\ threads' = reset_threads(threads)
          /\ registers' = reset_registers(ResetRegisters(seed))
          /\ stack' = reset_stack(stack)
    /\ controls' = Controls0
    /\ curPartId' = GAME_PART1
    /\ reqPartId' = 0
    /\ pos' = "loop"
    /\ audio' = audio_reset(audio)
    /\ video' = video_reset(video)
    /\ UNCHANGED << cur, clock, tick, hist >>

\* what processEvents can leave in the controls: nothing new, a typed
\* character, the pause key, or a quit request
HostEvents(c) ==
    { c,
      [c EXCEPT !.input = TypedKey],
      [c EXCEPT !.pause = ~@],
      [c EXCEPT !.quit = TRUE] }

\* top of the loop: if(isRunning()) { processEvents(); processVirtualMachine(); }
ProcessEvents ==
    /\ pos = "loop"
    /\ ~controls.quit
    /\ \E c \in HostEvents(controls) : controls' = c
    /\ pos' = "run"
    /\ UNCHANGED << devices, cur, vm, clock, parts, tick, hist >>

\* the host clock is monotonic: run() is entered with no time elapsed since
\* the last reading, or at the deadline the loop slept until
ClockReadings(last) ==
    { c \in {last, nextTicks} : last <= c /\ c <= MaxClock }

\* variant of the paused return that runs the scheduling pass all the same
GateHeldApplying ==
    /\ pos = "run"
    /\ controls.quit \/ controls.pause
    /\ \E now \in ClockReadings(currTicks) :
          /\ currTicks' = now
          /\ nextTicks' = U32(now + PAUSED_DELAY)
    /\ threads' = [t \in ThreadIds |->
                     IF threads[t].requested_pc \in {PC_INACTIVE, PC_KILL}
                     THEN threads[t]
                     ELSE [threads[t] EXCEPT !.current_pc = threads[t].requested_pc,
                                             !.requested_pc = PC_INACTIVE]]
    /\ pos' = "after"
    /\ UNCHANGED << devices, cur, registers, stack, bytecode, prevTicks, controls,
                    parts, tick, hist >>

\* is_ready, gate closed: engine stopped or paused
GateHeld ==
    /\ pos = "run"
    /\ controls.quit \/ controls.pause
    /\ \E now \in ClockReadings(currTicks) :
          /\ currTicks' = now
          /\ nextTicks' = U32(now + PAUSED_DELAY)
    /\ pos' = "after"
    /\ UNCHANGED << devices, cur, vm, prevTicks, controls, parts, tick, hist >>

\* variant of the early return that drops the pending typed character
GateEarlyConsuming ==
    /\ pos = "run"
    /\ ~(controls.quit \/ controls.pause)
    /\ \E now \in ClockReadings(currTicks) :
          /\ now < nextTicks
          /\ currTicks' = now
    /\ controls' = [controls EXCEPT !.input = 0]
    /\ pos' = "after"
    /\ UNCHANGED << devices, cur, vm, prevTicks, nextTicks, parts, tick, hist >>

\* is_ready, gate closed: the deadline is not reached
GateEarly ==
    /\ pos = "run"
    /\ ~(controls.quit \/ controls.pause)
    /\ \E now \in ClockReadings(currTicks) :
          /\ now < nextTicks
          /\ currTicks' = now
    /\ pos' = "after"
    /\ UNCHANGED << devices, cur, vm, prevTicks, nextTicks, controls, parts, tick, hist >>

\* is_ready, gate open: a tick is executed
GateOpen ==
    /\ pos = "run"
    /\ ~(controls.quit \/ controls.pause)
    /\ tick < MaxTick
    /\ \E now \in ClockReadings(currTicks) :
          /\ now >= nextTicks
          /\ currTicks' = now
    /\ prevTicks' = nextTicks
    /\ tick' = tick + 1
    /\ pos' = "inputs"
    /\ UNCHANGED << devices, cur, vm, nextTicks, controls, parts, hist >>

\* int16_t stored in a register
S16(n) == U16(n + 65536)

\* variant of process_inputs that does not clear the input-key register first
process_inputs_sticky(regs, c) ==
    [r \in RegisterIds |->
        CASE r = VM_VARIABLE_INPUT_KEY ->
                 IF c.input # 0 THEN c.input ELSE regs[r]
          [] r = VM_VARIABLE_HERO_POS_LEFT_RIGHT -> S16(c.horz)
          [] r = VM_VARIABLE_HERO_POS_UP_DOWN -> S16(c.vert)
          [] r = VM_VARIABLE_HERO_POS_JUMP_DOWN -> S16(c.vert)
          [] r = VM_VARIABLE_HERO_POS_MASK -> c.mask
          [] r = VM_VARIABLE_HERO_ACTION -> S16(c.btns)
          [] r = VM_VARIABLE_HERO_ACTION_POS_MASK -> c.mask
          [] OTHER -> regs[r]]

\* process_inputs
process_inputs(regs, c) ==
    [r \in RegisterIds |->
        CASE r = VM_VARIABLE_INPUT_KEY -> IF c.input # 0 THEN c.input ELSE 0
          [] r = VM_VARIABLE_HERO_POS_LEFT_RIGHT -> S16(c.horz)
          [] r = VM_VARIABLE_HERO_POS_UP_DOWN -> S16(c.vert)
          [] r = VM_VARIABLE_HERO_POS_JUMP_DOWN -> S16(c.vert)
          [] r = VM_VARIABLE_HERO_POS_MASK -> c.mask
          [] r = VM_VARIABLE_HERO_ACTION -> S16(c.btns)
          [] r = VM_VARIABLE_HERO_ACTION_POS_MASK -> c.mask
          [] OTHER -> regs[r]]

ProcessInputs ==
    /\ pos = "inputs"
    /\ registers' = process_inputs(registers, controls)
    /\ controls' = [controls EXCEPT !.input = 0]
    /\ pos' = "sched"
    /\ UNCHANGED << devices, cur, threads, stack, bytecode, clock, parts, tick, hist >>

\* variant of apply_requests that does not copy the requested state
apply_requests_no_state(th) ==
    IF th.requested_pc # PC_INACTIVE
    THEN IF th.requested_pc # PC_KILL
         THEN [th EXCEPT !.current_pc = th.requested_pc,
                         !.requested_pc = PC_INACTIVE]
         ELSE [th EXCEPT !.current_pc = PC_INACTIVE,
                         !.requested_pc = PC_INACTIVE]
    ELSE th

\* variant of apply_requests that leaves a kill request pending
apply_requests_keep_kill(th) ==
    LET s == [th EXCEPT !.current_state = th.requested_state]
    IN  IF th.requested_pc # PC_INACTIVE
        THEN IF th.requested_pc # PC_KILL
             THEN [s EXCEPT !.current_pc = th.requested_pc,
                            !.requested_pc = PC_INACTIVE]
             ELSE [s EXCEPT !.current_pc = PC_INACTIVE]
        ELSE s

\* first loop of run_all_threads, one slot
apply_requests(th) ==
    LET s == [th EXCEPT !.current_state = th.requested_state]
    IN  IF th.requested_pc # PC_INACTIVE
        THEN IF th.requested_pc # PC_KILL
             THEN [s EXCEPT !.current_pc = th.requested_pc,
                            !.requested_pc = PC_INACTIVE]
             ELSE [s EXCEPT !.current_pc = PC_INACTIVE,
                            !.requested_pc = PC_INACTIVE]
        ELSE s

\* variant of the skip test that looks at the pc only
skipped_pc_only(th) == th.current_pc >= PC_INACTIVE

\* run_one_thread: the test that skips an inactive or paused thread
skipped(th) == (th.current_pc >= PC_INACTIVE) \/ (th.current_state # 0)

\* a request of the previous tick reaches thread t in this scheduling pass
RequestPending(t) ==
    \/ threads[t].requested_pc # PC_INACTIVE
    \/ threads[t].requested_state # threads[t].current_state

\* first loop of run_all_threads: the scheduling pass over all slots
SchedulingPass ==
    /\ pos = "sched"
    /\ threads' = [t \in ThreadIds |-> apply_requests(threads[t])]
    /\ cur' = 0
    /\ pos' = "enter"
    /\ runnable' = { t \in ThreadIds : /\ threads'[t].current_pc # PC_INACTIVE
                                        /\ threads'[t].current_state = 0 }
    /\ ran' = {}
    /\ done' = {}
    /\ reqTick' = NoThreads
    /\ resumeAt' = [t \in ThreadIds |->
                      IF RequestPending(t) THEN -1 ELSE yieldedAt[t]]
    /\ yieldedAt' = NoThreads
    /\ UNCHANGED << devices, registers, stack, bytecode, clock, controls, parts, tick,
                    killAllTick, revived, switchTick, slice >>

\* variant of the second loop that stays on the same slot
same_thread(i) == i

\* second loop of run_all_threads: the slot that follows slot i
next_thread(i) == i + 1

\* run_one_thread for an inactive or paused thread: the yield flag is set
\* at once, the loop is not entered, opcode and yield are cleared on exit
SkipThread ==
    /\ pos = "enter"
    /\ cur < NumThreads
    /\ skipped(threads[cur])
    /\ threads' = [threads EXCEPT ![cur].opcode = OPCODE_NONE,
                                  ![cur].yield = FALSE]
    /\ cur' = next_thread(cur)
    /\ pos' = IF next_thread(cur) < NumThreads THEN "enter" ELSE "schedule"
    /\ done' = done \cup {cur}
    /\ UNCHANGED << devices, registers, stack, bytecode, clock, controls, parts, tick,
                    runnable, ran, reqTick, killAllTick, revived, switchTick,
                    yieldedAt, resumeAt, slice >>

\* run_one_thread, entry for a runnable thread: clears opcode and yield and
\* seeks the cursor to the thread's pc
EnterThread ==
    /\ pos = "enter"
    /\ cur < NumThreads
    /\ ~skipped(threads[cur])
    /\ threads' = [threads EXCEPT ![cur].opcode = OPCODE_NONE,
                                  ![cur].yield = FALSE]
    /\ bytecode' = [buffer |-> bytecode.buffer,
                    offset |-> seek(Machine, threads[cur].current_pc).offset]
    /\ pos' = "fetch"
    /\ slice' = Slice0(stack.index)
    /\ UNCHANGED << devices, cur, registers, stack, clock, controls, parts, tick,
                    runnable, ran, done, reqTick, killAllTick, revived,
                    switchTick, yieldedAt, resumeAt >>

\* the cursor is on a byte of the segment
InSegment ==
    bytecode.buffer = NullBuffer \/ bytecode.offset < Len(Images[bytecode.buffer])

\* the instruction at the cursor and its operands, before it is fetched
NextOpcode == ByteAt(Machine, 0)
IsInit == NextOpcode = 8
InitTarget == ByteAt(Machine, 1)
InitPc == WordAt(Machine, 2)
IsReset == NextOpcode = 12
ResetBegin == ByteAt(Machine, 1)
ResetEnd == ByteAt(Machine, 2)
ResetState == ByteAt(Machine, 3)
IsKillAll ==
    IsReset /\ ResetBegin = 0 /\ ResetEnd = NumThreads - 1 /\ ResetState = 2

\* run_one_thread, loop body up to the end of the switch: one instruction
Execute ==
    /\ pos = "fetch"
    /\ InSegment
    /\ \E m \in Outcomes(FetchExecute(Machine, cur)) :
           /\ threads' = m.threads
           /\ registers' = m.registers
           /\ stack' = m.stack
           /\ bytecode' = [buffer |-> m.buffer, offset |-> m.offset]
           /\ reqPartId' = m.reqPartId
           /\ audio' = m.audio
           /\ video' = m.video
           /\ pos' = IF m.fatal THEN "panic"
                     ELSE IF m.undefined THEN "undefined"
                     ELSE IF m.video.calls # << >> THEN "hang" ELSE "refresh"
    /\ ran' = ran \cup {cur}
    /\ reqTick' = [t \in ThreadIds |->
                     IF threads'[t].requested_pc # threads[t].requested_pc
                     THEN tick ELSE reqTick[t]]
    /\ killAllTick' = IF IsKillAll THEN tick ELSE killAllTick
    /\ revived' = IF IsKillAll THEN {}
                  ELSE IF IsInit /\ killAllTick = tick
                       THEN revived \cup {InitTarget} ELSE revived
    /\ resumeAt' = [resumeAt EXCEPT ![cur] = -1]
    /\ slice' = [slice EXCEPT
                    !.calls = IF NextOpcode = 4 /\ pos' = "refresh" THEN @ + 1 ELSE @,
                    !.rets  = IF NextOpcode = 5 /\ pos' = "refresh" THEN @ + 1 ELSE @,
                    !.djnzs = IF NextOpcode = 9 THEN @ + 1 ELSE @]
    /\ UNCHANGED << cur, clock, controls, curPartId, tick, runnable, done,
                    switchTick, yieldedAt >>

\* variant of the loop test that also ends the slice after a taken jump
RefreshPcQuota ==
    /\ pos = "refresh"
    /\ threads' = [threads EXCEPT ![cur].current_pc = U16(bytecode.offset)]
    /\ pos' = IF threads[cur].yield \/ threads[cur].opcode = 7
              THEN "leave" ELSE "fetch"
    /\ yieldedAt' = IF threads[cur].opcode = 6
                    THEN [yieldedAt EXCEPT ![cur] = U16(threads[cur].current_pc + 1)]
                    ELSE yieldedAt
    /\ UNCHANGED << devices, cur, registers, stack, bytecode, clock, controls, parts,
                    tick, runnable, ran, done, reqTick, killAllTick, revived,
                    switchTick, resumeAt, slice >>

\* run_one_thread, end of the loop body: current_pc = _bytecode.offset(),
\* then the loop test on the yield flag
RefreshPc ==
    /\ pos = "refresh"
    /\ threads' = [threads EXCEPT ![cur].current_pc = U16(bytecode.offset)]
    /\ pos' = IF threads[cur].yield THEN "leave" ELSE "fetch"
    /\ yieldedAt' = IF threads[cur].opcode = 6
                    THEN [yieldedAt EXCEPT ![cur] = U16(threads[cur].current_pc + 1)]
                    ELSE yieldedAt
    /\ UNCHANGED << devices, cur, registers, stack, bytecode, clock, controls, parts,
                    tick, runnable, ran, done, reqTick, killAllTick, revived,
                    switchTick, resumeAt, slice >>

\* run_one_thread, exit, and the step of the second loop of run_all_threads
LeaveThread ==
    /\ pos = "leave"
    /\ threads' = [threads EXCEPT ![cur].opcode = OPCODE_NONE,
                                  ![cur].yield = FALSE]
    /\ cur' = next_thread(cur)
    /\ pos' = IF next_thread(cur) < NumThreads THEN "enter" ELSE "schedule"
    /\ done' = done \cup {cur}
    /\ UNCHANGED << devices, registers, stack, bytecode, clock, controls, parts, tick,
                    runnable, ran, reqTick, killAllTick, revived, switchTick,
                    yieldedAt, resumeAt, slice >>

\* the clock read by schedule(), after the threads have run
LateReadings(last) == { c \in {last, last + 1} : c <= MaxClock }

\* schedule: the next deadline from the pause register
Schedule ==
    /\ pos = "schedule"
    /\ \E now \in LateReadings(currTicks) :
          LET delay == U32(registers[VM_VARIABLE_PAUSE_SLICES] * SLICE_TICKS)
              next  == U32(prevTicks + delay)
          IN  /\ currTicks' = now
              /\ nextTicks' = IF next <= now THEN U32(now + 1) ELSE next
    /\ pos' = "after"
    /\ UNCHANGED << devices, cur, vm, prevTicks, controls, parts, tick, hist >>

\* if(isStopped()) break;
EngineStop ==
    /\ pos = "after"
    /\ controls.quit
    /\ pos' = "stopped"
    /\ UNCHANGED << devices, cur, vm, clock, controls, parts, tick, hist >>

\* Resources::loadPart: the ids that name a part; for any other id part
\* stays nullptr and is dereferenced (undefined behaviour): some part-shaped
\* bytes are read and the engine goes on, or anything else happens
ValidPart(id) == GAME_PART_FIRST <= id /\ id <= GAME_PART_LAST

\* if(getReqPartId() != 0) initPart(0): the input is reset, the requested
\* part is loaded and its bytecode installed
InitPart ==
    /\ pos = "after"
    /\ ~controls.quit
    /\ reqPartId # 0
    /\ controls' = Controls0
    /\ curPartId' = IF ValidPart(reqPartId) THEN reqPartId ELSE curPartId
    /\ reqPartId' = 0
    /\ \E image \in PartImageIds : setByteCode(image)
    /\ pos' \in IF ValidPart(reqPartId) THEN {"loop"} ELSE {"loop", "undefined"}
    /\ switchTick' = tick
    /\ audio' = audio_reset(audio)
    /\ video' = video_reset(video)
    /\ UNCHANGED << cur, clock, tick, runnable, ran, done, reqTick,
                    killAllTick, revived, yieldedAt, resumeAt, slice >>

\* no part is requested: sleepUntil(nextTicks) and the next iteration
NextIteration ==
    /\ pos = "after"
    /\ ~controls.quit
    /\ reqPartId = 0
    /\ pos' = "loop"
    /\ UNCHANGED << devices, cur, vm, clock, controls, parts, tick, hist >>

Next ==
    \/ EngineReset
    \/ ProcessEvents
    \/ GateHeld
    \/ GateEarly
    \/ GateOpen
    \/ ProcessInputs
    \/ SchedulingPass
    \/ SkipThread
    \/ EnterThread
    \/ Execute
    \/ RefreshPc
    \/ LeaveThread
    \/ Schedule
    \/ EngineStop
    \/ InitPart
    \/ NextIteration

Spec == Init /\ [][Next]_vars

(***************************************************************************)
(* Properties                                                              *)
(***************************************************************************)
InTick == pos \in {"enter", "fetch", "refresh", "leave"}
Boundary == pos \in {"boot", "after", "sched"}
ResetRange == { t \in ThreadIds : ResetBegin <= t /\ t <= ResetEnd }

\* C1: an init executed during tick N changes no thread's current_pc (not
\* even the issuer's); it only records the pc as the target's request, and a
\* pending request is one written in the previous executed tick, which the
\* scheduling pass that opens the next executed tick makes the target's
\* current_pc; apart from the running thread's own cursor refresh, current_pc
\* changes at tick boundaries only
C1_InitIsDeferred ==
    /\ [][ (pos = "fetch" /\ IsInit) =>
             /\ \A t \in ThreadIds :
                   threads'[t].current_pc = threads[t].current_pc
             /\ threads'[InitTarget].requested_pc = InitPc ]_vars
    /\ [][ pos = "sched" =>
             \A t \in ThreadIds :
                threads[t].requested_pc \notin {PC_INACTIVE, PC_KILL} =>
                   /\ reqTick[t] = tick - 1
                   /\ threads'[t].current_pc = threads[t].requested_pc ]_vars
    /\ [][ \A t \in ThreadIds :
             threads'[t].current_pc # threads[t].current_pc =>
                Boundary \/ (pos = "refresh" /\ t = cur) ]_vars

\* a thread has just executed an init on itself: the request is pending and
\* its current_pc is still the one of the init instruction
C1_Witness ==
    /\ pos = "refresh"
    /\ threads[cur].opcode = 8
    /\ reqTick[cur] = tick
    /\ threads[cur].requested_pc \notin {PC_INACTIVE, PC_KILL}
    /\ threads[cur].requested_pc # threads[cur].current_pc
    /\ U16(bytecode.offset) # threads[cur].requested_pc

\* C2: the scheduling pass handles every slot: current_state takes
\* requested_state, a pending 0xFFFE makes the thread inactive, any other
\* pending pc becomes current_pc; and until the first instruction of the tick
\* has run no slot has a request left pending
C2_SchedulingPass ==
    /\ [][ pos = "sched" =>
             \A t \in ThreadIds :
                LET req == threads[t].requested_pc
                IN  /\ threads'[t].current_state = threads[t].requested_state
                    /\ threads'[t].requested_state = threads[t].requested_state
                    /\ threads'[t].requested_pc = PC_INACTIVE
                    /\ threads'[t].current_pc =
                          IF req = PC_INACTIVE THEN threads[t].current_pc
                          ELSE IF req = PC_KILL THEN PC_INACTIVE ELSE req ]_vars
    /\ [] ( (InTick /\ ran = {}) =>
              \A t \in ThreadIds :
                 /\ threads[t].current_state = threads[t].requested_state
                 /\ threads[t].requested_pc = PC_INACTIVE )

\* the execution pass starts after a pass that applied a kill request to
\* some threads and an init request to others
C2_Witness ==
    /\ pos = "enter"
    /\ cur = 0
    /\ killAllTick = tick - 1
    /\ revived # {}
    /\ \A t \in revived : threads[t].current_pc < PC_KILL
    /\ \E t \in ThreadIds : t \notin revived /\ threads[t].current_pc = PC_INACTIVE

\* C3: while a thread A executes, current_pc and current_state of every other
\* thread stay as they are; init writes only requested_pc of its target and
\* reset only requested_state (or requested_pc) of the threads in its range;
\* current_state changes at tick boundaries only
C3_OnlyRequestedFields ==
    /\ [][ (pos = "fetch" \/ pos = "refresh") =>
             \A b \in ThreadIds :
                b # cur =>
                   /\ threads'[b].current_pc = threads[b].current_pc
                   /\ threads'[b].current_state = threads[b].current_state ]_vars
    /\ [][ (pos = "fetch" /\ IsInit) =>
             \A t \in ThreadIds :
                /\ threads'[t].current_pc = threads[t].current_pc
                /\ threads'[t].current_state = threads[t].current_state
                /\ threads'[t].requested_state = threads[t].requested_state
                /\ t # InitTarget =>
                      threads'[t].requested_pc = threads[t].requested_pc ]_vars
    /\ [][ (pos = "fetch" /\ IsReset) =>
             \A t \in ThreadIds :
                /\ threads'[t].current_pc = threads[t].current_pc
                /\ threads'[t].current_state = threads[t].current_state
                /\ (ResetState = 2 \/ t \notin ResetRange) =>
                      threads'[t].requested_state = threads[t].requested_state
                /\ (ResetState # 2 \/ t \notin ResetRange) =>
                      threads'[t].requested_pc = threads[t].requested_pc ]_vars
    /\ [][ \A t \in ThreadIds :
             threads'[t].current_state # threads[t].current_state =>
                Boundary ]_vars

\* a thread has just asked to pause another thread that is still to run in
\* this tick: the target is requested to pause and is not paused
C3_Witness ==
    /\ pos = "refresh"
    /\ threads[cur].opcode = 12
    /\ \E b \in runnable :
          /\ b > cur
          /\ threads[b].requested_state = 1
          /\ threads[b].current_state = 0

\* the execution pass of the executed tick that follows a reset(0,63,2)
AfterKillAll ==
    pos = "enter" /\ cur = 0 /\ killAllTick >= 1 /\ killAllTick = tick - 1

\* C4 as stated, taken where no part change intervenes: when the execution
\* pass of the tick after a reset(0,63,2) starts, all 64 threads are
\* inactive, whatever was executed after the reset
C4_AllInactiveAfterKillAll ==
    (AfterKillAll /\ switchTick # tick - 1) =>
       \A t \in ThreadIds : threads[t].current_pc = PC_INACTIVE

\* C4 amended: reset(0,63,2) writes the kill request into all 64 slots
\* whatever their state; when the execution pass of the next executed tick
\* starts every thread is inactive, except the targets of an init executed
\* after the reset in the same tick, and unless a part change has
\* re-initialised the thread table in between
C4_InactiveUnlessRevived ==
    /\ [][ (pos = "fetch" /\ IsKillAll) =>
             \A t \in ThreadIds : threads'[t].requested_pc = PC_KILL ]_vars
    /\ [] ( (AfterKillAll /\ switchTick # tick - 1) =>
              \A t \in ThreadIds \ revived :
                 threads[t].current_pc = PC_INACTIVE )

\* the tick after a reset(0,63,2) that no init followed: all threads are
\* inactive, one of them was paused when it was killed
C4_Witness ==
    /\ AfterKillAll
    /\ switchTick # tick - 1
    /\ revived = {}
    /\ \E t \in ThreadIds : threads[t].current_state = 1
    /\ \A t \in ThreadIds : threads[t].current_pc = PC_INACTIVE

\* C5: within a tick the slots are taken in ascending order, each once: the
\* slots below the running one are finished and are never entered again,
\* so every instruction of thread i precedes every instruction of thread j
\* for i < j
C5_AscendingOrder ==
    /\ [] ( InTick =>
              /\ done = { t \in ThreadIds : t < cur }
              /\ ran \subseteq { t \in ThreadIds : t <= cur } )
    /\ [] ( (pos = "fetch" \/ pos = "refresh" \/ pos = "leave") =>
              cur \notin done )
    /\ [][ (InTick /\ cur' # cur) => cur' = cur + 1 ]_vars
    /\ [][ (pos = "fetch") => ran' = ran \cup {cur} ]_vars

\* a thread with a higher id executes after two lower ones have both
\* executed and finished their slices in this tick
C5_Witness ==
    /\ pos = "refresh"
    /\ cur = 63
    /\ {0, 1} \subseteq (ran \cap done)

\* C6: a thread that is inactive or paused after the scheduling pass
\* executes nothing in the tick: its slot is passed without a fetch and
\* without a change to its current_pc, the registers, the stack or the cursor
C6_SkippedThreadIdle ==
    /\ [] ( InTick => ran \subseteq runnable )
    /\ [] ( (pos = "fetch" \/ pos = "refresh" \/ pos = "leave") =>
              cur \in runnable )
    /\ [][ (pos = "enter" /\ cur \notin runnable) =>
             /\ pos' = "enter" \/ pos' = "schedule"
             /\ cur' = cur + 1
             /\ threads'[cur].current_pc = threads[cur].current_pc
             /\ threads'[cur].current_state = threads[cur].current_state
             /\ registers' = registers
             /\ stack' = stack
             /\ bytecode' = bytecode
             /\ ran' = ran ]_vars

\* the slot of a paused thread that holds a valid pc has been passed in a
\* tick in which other threads have executed
C6_Witness ==
    /\ InTick
    /\ \E t \in done : /\ threads[t].current_state = 1
                       /\ threads[t].current_pc < PC_KILL
                       /\ t \notin ran
                       /\ \E u \in ran : u < t

\* C7 as stated, its clause on the pc: a thread that is paused before and
\* after a step holds the same current_pc
C7_PausedKeepsPc ==
    [][ \A t \in ThreadIds :
          (threads[t].current_state = 1 /\ threads'[t].current_state = 1) =>
             threads'[t].current_pc = threads[t].current_pc ]_vars

\* C7 amended: reset(a,b,0|1) writes requested_state of the slots a..b and
\* leaves the current fields and the set of threads that run in the issuing
\* tick alone; the next scheduling pass makes the request the current state;
\* a paused thread executes nothing; its current_pc changes only when a
\* pending init or kill request is applied to it by a scheduling pass or
\* when a part change re-initialises the thread table; a resumed thread
\* with no such request runs again in the tick of the pass at the pc it held
C7_PauseResume ==
    /\ [][ (pos = "fetch" /\ IsReset /\ ResetState < 2) =>
             /\ \A t \in ResetRange : threads'[t].requested_state = ResetState
             /\ \A t \in ThreadIds :
                   /\ threads'[t].current_state = threads[t].current_state
                   /\ threads'[t].current_pc = threads[t].current_pc
             /\ runnable' = runnable ]_vars
    /\ [][ pos = "sched" =>
             \A t \in ThreadIds :
                /\ threads'[t].current_state = threads[t].requested_state
                /\ threads[t].requested_state = 1 => t \notin runnable'
                /\ ( /\ threads[t].current_state = 1
                     /\ threads[t].requested_state = 0
                     /\ threads[t].requested_pc = PC_INACTIVE ) =>
                      /\ threads'[t].current_pc = threads[t].current_pc
                      /\ threads[t].current_pc # PC_INACTIVE => t \in runnable'
           ]_vars
    /\ [] ( InTick => \A t \in ran : threads[t].current_state = 0 )
    /\ [][ \A t \in ThreadIds :
             ( /\ threads[t].current_state = 1
               /\ threads'[t].current_pc # threads[t].current_pc ) =>
                \/ pos = "sched" /\ threads[t].requested_pc # PC_INACTIVE
                \/ pos = "after" /\ switchTick' = tick ]_vars

\* a scheduling pass is about to resume a paused thread that holds a valid
\* pc and has no pc request pending
C7_Witness ==
    /\ pos = "sched"
    /\ \E t \in ThreadIds :
          /\ threads[t].current_state = 1
          /\ threads[t].requested_state = 0
          /\ threads[t].requested_pc = PC_INACTIVE
          /\ threads[t].current_pc < PC_KILL

\* C8 as stated, its last clause: an inactive thread becomes active again
\* only when a scheduling pass applies an init request that targets it
C8_RevivedOnlyByInit ==
    [][ \A t \in ThreadIds :
          ( /\ pos # "boot"
            /\ threads[t].current_pc = PC_INACTIVE
            /\ threads'[t].current_pc # PC_INACTIVE ) =>
             /\ pos = "sched"
             /\ threads[t].requested_pc \notin {PC_INACTIVE, PC_KILL} ]_vars

\* C8 amended: kill moves the cursor to 0xFFFF and sets the yield flag, so
\* the thread's current_pc is 0xFFFF at the end of that instruction and its
\* slice ends there; an inactive thread becomes active again only when a
\* scheduling pass applies an init request that targets it, or, for
\* thread 0, when a part change restarts it at offset 0
C8_Kill ==
    /\ [][ (pos = "fetch" /\ NextOpcode = 17) =>
             /\ pos' = "refresh"
             /\ threads'[cur].yield
             /\ bytecode'.offset = PC_INACTIVE ]_vars
    /\ [][ (pos = "refresh" /\ threads[cur].opcode = 17) =>
             /\ threads'[cur].current_pc = PC_INACTIVE
             /\ pos' = "leave" ]_vars
    /\ [] ( (pos = "fetch") => threads[cur].opcode # 17 )
    /\ [][ \A t \in ThreadIds :
             ( /\ pos # "boot"
               /\ threads[t].current_pc = PC_INACTIVE
               /\ threads'[t].current_pc # PC_INACTIVE ) =>
                \/ /\ pos = "sched"
                   /\ threads[t].requested_pc \notin {PC_INACTIVE, PC_KILL}
                \/ /\ pos = "after"
                   /\ switchTick' = tick
                   /\ t = 0
                   /\ threads'[t].current_pc = 0 ]_vars

\* a thread has executed kill while a higher thread is still to run in
\* this tick: it is inactive and its slice is over
C8_Witness ==
    /\ pos = "leave"
    /\ \E u \in runnable : u > cur
    /\ threads[cur].opcode = 17
    /\ threads[cur].yield
    /\ threads[cur].current_pc = PC_INACTIVE

\* the slot of a thread that yielded in the previous executed tick and to
\* which the scheduling pass applied no request
YieldedLastTick == cur < NumThreads /\ resumeAt[cur] # -1

\* C9 as stated, its last clause: a thread that yielded, and to which no
\* init or reset request was applied since, runs in the next executed tick
\* and starts at the offset that follows the yield opcode
C9_ResumesAfterYield ==
    (pos = "enter" /\ YieldedLastTick) =>
       /\ ~skipped(threads[cur])
       /\ threads[cur].current_pc = resumeAt[cur]

\* C9 amended: yield sets the yield flag and nothing else, so the thread
\* stays active with its current_pc on the byte after the yield opcode and
\* its slice ends; if no request is applied to it by the next scheduling
\* pass and no part change re-initialises the thread table in between, it
\* runs in the next executed tick and its first fetch is at that offset
C9_Yield ==
    /\ [][ (pos = "fetch" /\ NextOpcode = 6) =>
             /\ pos' = "refresh"
             /\ threads'[cur].yield
             /\ bytecode'.offset = bytecode.offset + 1
             /\ registers' = registers
             /\ stack' = stack ]_vars
    /\ [][ (pos = "refresh" /\ threads[cur].opcode = 6) =>
             /\ pos' = "leave"
             /\ threads'[cur].current_pc = U16(threads[cur].current_pc + 1)
             /\ threads'[cur].current_pc # PC_INACTIVE
             /\ threads'[cur].current_state = 0 ]_vars
    /\ [] ( (pos = "fetch") => threads[cur].opcode # 6 )
    /\ [] ( (pos = "enter" /\ YieldedLastTick /\ switchTick # tick - 1) =>
              /\ ~skipped(threads[cur])
              /\ threads[cur].current_pc = resumeAt[cur] )
    /\ [] ( (pos = "fetch" /\ YieldedLastTick /\ switchTick # tick - 1) =>
              bytecode.offset = resumeAt[cur] )

\* a thread other than thread 0 is about to fetch its first instruction of
\* the tick, at the offset that follows the yield that ended its last slice
C9_Witness ==
    /\ pos = "fetch"
    /\ cur > 0
    /\ YieldedLastTick
    /\ switchTick # tick - 1
    /\ cur \notin ran
    /\ bytecode.offset = resumeAt[cur]
    /\ CodeByte(bytecode.buffer, bytecode.offset - 1) = 6

\* the thread table and the stack as setByteCode leaves them
AfterSetByteCode ==
    /\ threads[0].current_pc = 0
    /\ \A t \in ThreadIds :
          /\ t # 0 => threads[t].current_pc = PC_INACTIVE
          /\ threads[t].requested_pc = PC_INACTIVE
          /\ threads[t].current_state = 0
          /\ threads[t].requested_state = 0
    /\ { t \in ThreadIds : ~skipped(threads[t]) } = {0}
    /\ stack.index = 0
    /\ bytecode.offset = 0

\* C10: right after setByteCode, at boot and at every part change, whatever
\* the threads, requests and stack were before: thread 0 is at offset 0 and
\* is the only active thread, threads 1..63 are inactive, no slot has a
\* request pending or is paused, and the call stack is empty; this still
\* holds when the next tick is about to start
C10_SetByteCode ==
    /\ [][ (pos = "boot" \/ switchTick' # switchTick) =>
             /\ threads'[0].current_pc = 0
             /\ \A t \in ThreadIds :
                   /\ t # 0 => threads'[t].current_pc = PC_INACTIVE
                   /\ threads'[t].requested_pc = PC_INACTIVE
                   /\ threads'[t].current_state = 0
                   /\ threads'[t].requested_state = 0
             /\ stack'.index = 0 ]_vars
    /\ [] ( (pos # "boot" /\ (tick = 0 \/ switchTick = tick)) =>
              AfterSetByteCode )

\* a part change has just installed GAME_PART2: the requests, the pauses
\* and the stack entry of the previous part are gone
C10_Witness ==
    /\ pos = "loop"
    /\ switchTick = tick
    /\ tick >= 2
    /\ curPartId = GAME_PART2
    /\ killAllTick = tick
    /\ revived # {}
    /\ AfterSetByteCode

\* the registers that reset() or process_inputs write
ReservedRegisters ==
    { VM_VARIABLE_RANDOM_SEED, VM_VARIABLE_INPUT_KEY,
      VM_VARIABLE_HERO_POS_UP_DOWN, VM_VARIABLE_HERO_ACTION,
      VM_VARIABLE_HERO_POS_JUMP_DOWN, VM_VARIABLE_HERO_POS_LEFT_RIGHT,
      VM_VARIABLE_HERO_POS_MASK, VM_VARIABLE_HERO_ACTION_POS_MASK,
      VM_VARIABLE_PAUSE_SLICES, 84, 188, 198, 220, 228, 242 }

\* C11 as stated: after the setByteCode of a part change every non-reserved
\* register holds 0, whatever the previous part's script had written
C11_RegistersReset ==
    (pos = "loop" /\ switchTick = tick) =>
       \A r \in RegisterIds \ ReservedRegisters : registers[r] = 0

\* C11 amended: setByteCode leaves the register bank as it is (each register
\* is or-ed with zero), so a value written by the previous part's script is
\* still there after the part change; the registers take their reset values
\* in VirtualMachine::reset only, and these survive the first setByteCode
C11_RegistersKept ==
    /\ [][ (pos = "after" /\ switchTick' # switchTick) =>
             registers' = registers ]_vars
    /\ [][ pos = "boot" =>
             \E seed \in Seeds : registers' = ResetRegisters(seed) ]_vars

\* a part change has happened and register 16 still holds the value the
\* previous part's script wrote
C11_Witness ==
    /\ pos = "loop"
    /\ switchTick = tick
    /\ curPartId = GAME_PART2
    /\ registers[16] = 4660

\* C12: the stack index stays within 0..256; a call with 256 addresses
\* pushed and a ret with none pushed raise Panic and leave the stack and
\* the thread's current_pc as they were; any other call pushes one address
\* and any other ret pops one; nothing runs after a Panic
C12_StackBounds ==
    /\ [] ( stack.index \in 0 .. StackSize )
    /\ [][ (pos = "fetch" /\ NextOpcode = 4) =>
             IF stack.index >= StackSize
             THEN /\ pos' = "panic"
                  /\ stack' = stack
                  /\ threads'[cur].current_pc = threads[cur].current_pc
             ELSE /\ pos' = "refresh"
                  /\ stack'.index = stack.index + 1
                  /\ stack'.array[stack.index] = bytecode.offset + 3 ]_vars
    /\ [][ (pos = "fetch" /\ NextOpcode = 5) =>
             IF stack.index = 0
             THEN /\ pos' = "panic"
                  /\ stack' = stack
                  /\ threads'[cur].current_pc = threads[cur].current_pc
             ELSE /\ pos' = "refresh"
                  /\ stack'.index = stack.index - 1
                  /\ bytecode'.offset = stack.array[stack.index - 1] ]_vars
    /\ [][ pos # "panic" ]_vars

\* a call has found 256 return addresses pushed: Panic, the stack is full
\* and the thread's current_pc is still on the call
C12_Witness ==
    /\ pos = "panic"
    /\ threads[cur].opcode = 4
    /\ stack.index = StackSize
    /\ stack.array[StackSize - 1] = 3
    /\ threads[cur].current_pc = 0

\* C13: an opcode byte in 0x1B..0x3F raises Panic in the step that fetches
\* it: registers, stack and every thread's pc, state and requests are left
\* as they were, so the thread's current_pc is the offset of the failing
\* byte; nothing runs after the Panic, neither this thread nor another
C13_InvalidOpcode ==
    /\ [][ (pos = "fetch" /\ NextOpcode \in OPCODE_INVALID .. OPCODE_NONE) =>
             /\ pos' = "panic"
             /\ registers' = registers
             /\ stack' = stack
             /\ threads'[cur].opcode = NextOpcode
             /\ \A t \in ThreadIds :
                   /\ threads'[t].current_pc = threads[t].current_pc
                   /\ threads'[t].requested_pc = threads[t].requested_pc
                   /\ threads'[t].current_state = threads[t].current_state
                   /\ threads'[t].requested_state = threads[t].requested_state
           ]_vars
    /\ [] ( (pos = "panic"
               /\ threads[cur].opcode \in OPCODE_INVALID .. OPCODE_NONE) =>
              /\ threads[cur].current_pc < PC_KILL
              /\ CodeByte(bytecode.buffer, threads[cur].current_pc)
                    = threads[cur].opcode )
    /\ [][ pos = "panic" => FALSE ]_vars

\* thread 0 has met the byte 0x3F after one good instruction: Panic, its
\* current_pc is on that byte and thread 1, due in this tick, has not run
C13_Witness ==
    /\ pos = "panic"
    /\ cur = 0
    /\ threads[0].opcode = OPCODE_NONE
    /\ threads[0].current_pc = 9
    /\ registers[16] = 1
    /\ 1 \in runnable \ ran

(***************************************************************************)
(* The conditional jump on its own: thread 0 is about to execute an image  *)
(* of CjmpImages in its first slice, with the two compared registers as    *)
(* earlier instructions may have left them, in GAME_PART0 or GAME_PART1.   *)
(***************************************************************************)
\* the form an image of CjmpImages was built from
CjmpFormOf(image) == CjmpForms[((image - Len(BaseImages) - 1) \div 8) + 1]

InitCjmp ==
    /\ pos = "fetch"
    /\ cur = 0
    /\ tick = 1
    /\ threads = reset_threads([t \in ThreadIds |-> Thread0])
    /\ stack = reset_stack(<< >>)
    /\ \E image \in CjmpImageIds, a \in CjmpValues, b \in CjmpValues :
          LET form == CjmpFormOf(image)
              rg1  == form[2]
              rg2  == IF form[1] >= 128 THEN form[3][1] ELSE rg1
          IN  /\ bytecode = [buffer |-> image, offset |-> 0]
              /\ registers = [r \in RegisterIds |->
                                IF r = rg1 THEN U16(a + 65535)
                                ELSE IF r = rg2 THEN b ELSE 0]
    /\ curPartId \in {GAME_PART0, GAME_PART1}
    /\ reqPartId = 0
    /\ currTicks = 0 /\ prevTicks = 0 /\ nextTicks = 0
    /\ controls = Controls0
    /\ runnable = {0}
    /\ ran = {} /\ done = {}
    /\ reqTick = NoThreads /\ yieldedAt = NoThreads /\ resumeAt = NoThreads
    /\ killAllTick = -1 /\ switchTick = -1
    /\ revived = {}
    /\ slice = Slice0(0)
    /\ audio = Audio0
    /\ video = Video0

NextCjmp ==
    \/ Execute
    \/ RefreshPc
    \/ LeaveThread

SpecCjmp == InitCjmp /\ [][NextCjmp]_vars

\* the cjmp at the cursor, decoded: condition, operands and target
CjmpVariant == ByteAt(Machine, 1)
CjmpCode == CjmpVariant % 8
CjmpIsReg == CjmpVariant >= 128
CjmpIsWord == ~CjmpIsReg /\ (CjmpVariant % 128) >= 64
CjmpRg1 == ByteAt(Machine, 2)
CjmpRg2 == IF CjmpIsReg THEN ByteAt(Machine, 3) ELSE 0
CjmpOp1 == registers[CjmpRg1]
CjmpOp2 ==
    IF CjmpIsReg THEN registers[ByteAt(Machine, 3)]
    ELSE IF CjmpIsWord THEN WordAt(Machine, 3) ELSE ByteAt(Machine, 3)
CjmpLoc == IF CjmpIsWord THEN WordAt(Machine, 5) ELSE WordAt(Machine, 4)
CjmpFallThrough == bytecode.offset + (IF CjmpIsWord THEN 7 ELSE 6)

\* the predicate of a condition code on two's-complement 16-bit values
SignedHolds(code, x, y) ==
    LET sx == x - (IF x > 32767 THEN 65536 ELSE 0)
        sy == y - (IF y > 32767 THEN 65536 ELSE 0)
    IN  \/ code = 0 /\ sx = sy
        \/ code = 1 /\ sx # sy
        \/ code = 2 /\ sx > sy
        \/ code = 3 /\ sx >= sy
        \/ code = 4 /\ sx < sy
        \/ code = 5 /\ sx <= sy

\* the comparison the protection bypass replaces
CjmpBypassed ==
    /\ CjmpCode = 0
    /\ CjmpRg1 = 41
    /\ CjmpRg2 = 30
    /\ curPartId = GAME_PART0

\* C14 as stated: for each condition code 0..5 and each operand form a cjmp
\* moves the cursor to its target if the signed predicate holds on the two
\* operands and to the next instruction if it does not
C14_JumpIffPredicate ==
    [][ (pos = "fetch" /\ NextOpcode = 10 /\ CjmpCode <= 5) =>
          bytecode'.offset =
             IF SignedHolds(CjmpCode, CjmpOp1, CjmpOp2)
             THEN CjmpLoc ELSE CjmpFallThrough ]_vars

\* C14 amended: the same, with the registers unchanged, except for the
\* comparison eq [$29],[$1e] in register form while GAME_PART0 is the
\* current part, which always jumps and overwrites registers $29..$2c,
\* $32 and $64; the next instruction is fetched where the cursor was left
C14_JumpIffPredicateOrBypass ==
    /\ [][ (pos = "fetch" /\ NextOpcode = 10 /\ CjmpCode <= 5) =>
             /\ pos' = "refresh"
             /\ IF CjmpBypassed
                THEN /\ bytecode'.offset = CjmpLoc
                     /\ \A r \in 41 .. 44 : registers'[r] = registers[r - 11]
                     /\ registers'[50] = 6
                     /\ registers'[100] = 20
                ELSE /\ registers' = registers
                     /\ bytecode'.offset =
                           IF SignedHolds(CjmpCode, CjmpOp1, CjmpOp2)
                           THEN CjmpLoc ELSE CjmpFallThrough ]_vars
    /\ [][ (pos = "refresh" /\ threads[cur].opcode = 10) =>
             /\ pos' = "fetch"
             /\ threads'[cur].current_pc = bytecode.offset ]_vars

\* lt against the immediate word 0 has jumped on a register that the
\* preceding addi wrapped from 0x7FFF to 0x8000
C14_Witness ==
    /\ pos = "refresh"
    /\ threads[cur].opcode = 10
    /\ bytecode.buffer \in CjmpImageIds
    /\ CodeByte(bytecode.buffer, CjmpAt + 1) = 64 + 4
    /\ CodeByte(bytecode.buffer, CjmpAt + 3) = 0
    /\ CodeByte(bytecode.buffer, CjmpAt + 4) = 0
    /\ registers[16] = 32768
    /\ bytecode.offset = CjmpTarget(CjmpFormOf(bytecode.buffer))

\* the loop count of the djnz image in the buffer
DjnzCount == bytecode.buffer - Len(FixedImages)

\* C15: in the script movi $0,n; L: djnz $0,L; kill, n in 1..MaxLoop, each
\* djnz decrements the register and jumps back unless it reached 0; when
\* the kill has executed the djnz has run exactly n times, the register is
\* 0, and all of it happened in the thread's first slice, in one tick
C15_DjnzLoop ==
    /\ [][ (pos = "fetch" /\ NextOpcode = 9 /\ bytecode.buffer \in DjnzImageIds) =>
             /\ registers'[0] = registers[0] - 1
             /\ slice'.djnzs = slice.djnzs + 1
             /\ slice.djnzs + registers[0] = DjnzCount
             /\ bytecode'.offset = IF registers[0] = 1 THEN 8 ELSE 4 ]_vars
    /\ [] ( (bytecode.buffer \in DjnzImageIds /\ threads[0].opcode = 17) =>
              /\ slice.djnzs = DjnzCount
              /\ registers[0] = 0
              /\ tick = 1
              /\ pos = "refresh" \/ threads[0].current_pc = PC_INACTIVE )
    /\ [] ( (bytecode.buffer \in DjnzImageIds /\ tick > 1) =>
              /\ threads[0].current_pc = PC_INACTIVE
              /\ registers[0] = 0 )

\* the loop of count 5 is over: djnz ran 5 times in the first tick, the
\* register is 0 and the thread has killed itself
C15_Witness ==
    /\ bytecode.buffer \in DjnzImageIds
    /\ DjnzCount = 5
    /\ pos = "leave"
    /\ tick = 1
    /\ slice.djnzs = 5
    /\ registers[0] = 0
    /\ threads[0].current_pc = PC_INACTIVE

\* C16: a run() entered while the engine is stopped or paused, or at a host
\* time before the deadline, returns at once: no scheduling pass, no
\* instruction, no executed tick; the thread table, the registers, the
\* stack, the cursor, the part request and the controls with their pending
\* typed character are unchanged (only the VM's clock fields are written)
C16_ClosedGate ==
    /\ [][ (pos = "run" /\
              (controls.quit \/ controls.pause \/ currTicks' < nextTicks)) =>
             /\ pos' = "after"
             /\ threads' = threads
             /\ registers' = registers
             /\ stack' = stack
             /\ bytecode' = bytecode
             /\ controls' = controls
             /\ reqPartId' = reqPartId /\ curPartId' = curPartId
             /\ tick' = tick
             /\ ran' = ran /\ runnable' = runnable
             /\ prevTicks' = prevTicks ]_vars
    /\ [][ (pos = "run" /\ pos' # "after") =>
             /\ ~controls.quit /\ ~controls.pause
             /\ currTicks' >= nextTicks ]_vars

\* run() has returned through the closed gate with a typed character and a
\* thread request still pending
C16_Witness ==
    /\ pos = "after"
    /\ tick >= 1
    /\ ~controls.quit /\ ~controls.pause
    /\ currTicks < nextTicks
    /\ controls.input = TypedKey
    /\ \E t \in ThreadIds : threads[t].requested_pc # PC_INACTIVE

(***************************************************************************)
(* The keyboard: a second specification in which processEvents also        *)
(* delivers the RETURN key and a part-selection key (SDLK_2), started from *)
(* the state Engine::reset leaves with one part of the data files loaded.  *)
(***************************************************************************)
\* controls.input = '\r'
KeyReturn == 13

\* the part the keyboard specification boots on
KeysImageIds == { i \in BootImageIds : Images[i] = ImageDjnz(MaxLoop) }

\* onKeyPress: what a batch of key events leaves in the controls
HostKeys(c) == HostEvents(c) \cup { [c EXCEPT !.input = KeyReturn] }

\* onKeyPress, SDLK_2: _engine.requestPartId(GAME_PART2)
HostParts(req) == { req, GAME_PART2 }

InitKeys ==
    /\ pos = "loop"
    /\ cur = 0
    /\ threads = reset_threads([t \in ThreadIds |-> Thread0])
    /\ \E seed \in Seeds : registers = reset_registers(ResetRegisters(seed))
    /\ stack = reset_stack(<< >>)
    /\ \E image \in KeysImageIds : bytecode = [buffer |-> image, offset |-> 0]
    /\ currTicks = 0 /\ prevTicks = 0 /\ nextTicks = 0
    /\ controls = Controls0
    /\ reqPartId = 0
    /\ curPartId = GAME_PART1
    /\ tick = 0
    /\ runnable = {}
    /\ ran = {} /\ done = {}
    /\ reqTick = NoThreads /\ yieldedAt = NoThreads /\ resumeAt = NoThreads
    /\ killAllTick = -1 /\ switchTick = -1
    /\ revived = {}
    /\ slice = Slice0(0)
    /\ audio = Audio0
    /\ video = Video0

\* processEvents with the typed keys and the part-selection key
ProcessKeys ==
    /\ pos = "loop"
    /\ ~controls.quit
    /\ \E c \in HostKeys(controls) : controls' = c
    /\ \E p \in HostParts(reqPartId) : reqPartId' = p
    /\ pos' = "run"
    /\ UNCHANGED << devices, cur, vm, clock, curPartId, tick, hist >>

\* initPart(0) for the part the part-selection key requested
InitPartKeys ==
    /\ pos = "after"
    /\ ~controls.quit
    /\ reqPartId # 0
    /\ controls' = Controls0
    /\ curPartId' = reqPartId
    /\ reqPartId' = 0
    /\ \E image \in KeysImageIds : setByteCode(image)
    /\ pos' = "loop"
    /\ switchTick' = tick
    /\ audio' = audio_reset(audio)
    /\ video' = video_reset(video)
    /\ UNCHANGED << cur, clock, tick, runnable, ran, done, reqTick,
                    killAllTick, revived, yieldedAt, resumeAt, slice >>

NextKeys ==
    \/ ProcessKeys
    \/ GateHeld
    \/ GateEarly
    \/ GateOpen
    \/ ProcessInputs
    \/ SchedulingPass
    \/ SkipThread
    \/ EnterThread
    \/ Execute
    \/ RefreshPc
    \/ LeaveThread
    \/ Schedule
    \/ EngineStop
    \/ InitPartKeys
    \/ NextIteration

SpecKeys == InitKeys /\ [][NextKeys]_vars

\* the input capture of an executed tick: it runs before the scheduling pass
\* and any instruction, loads the seven input registers from the controls
\* (the input-key register gets the pending character, 0 when there is none)
\* and leaves no character pending
InputCapture ==
    [][ pos = "inputs" =>
          /\ pos' = "sched"
          /\ threads' = threads /\ ran' = ran
          /\ registers'[VM_VARIABLE_INPUT_KEY] = controls.input
          /\ registers'[VM_VARIABLE_HERO_POS_LEFT_RIGHT] = S16(controls.horz)
          /\ registers'[VM_VARIABLE_HERO_POS_UP_DOWN] = S16(controls.vert)
          /\ registers'[VM_VARIABLE_HERO_POS_JUMP_DOWN] = S16(controls.vert)
          /\ registers'[VM_VARIABLE_HERO_POS_MASK] = controls.mask
          /\ registers'[VM_VARIABLE_HERO_ACTION] = S16(controls.btns)
          /\ registers'[VM_VARIABLE_HERO_ACTION_POS_MASK] = controls.mask
          /\ controls'.input = 0 ]_vars

\* C17 (as stated): on every executed tick the input registers are loaded
\* before any thread runs, and a pending typed character stays pending until
\* the input capture of an executed tick copies it, so that it is visible
\* in exactly one executed tick
C17_VisibleExactlyOnce ==
    /\ InputCapture
    /\ [][ controls.input # 0 =>
             (controls'.input = controls.input \/ pos = "inputs") ]_vars

\* C17 (amended): on every executed tick the input registers are loaded
\* before any thread runs; the input-key register gets the character that
\* is pending at that moment, 0 when there is none, and nothing is pending
\* while the threads run, so a character is visible in at most one executed
\* tick; a pending character that is replaced by a later key press, or
\* dropped by the input reset of a part change, before a tick executes is
\* never visible
C17_VisibleAtMostOnce ==
    /\ InputCapture
    /\ [][ controls'.input # controls.input =>
             \/ pos = "inputs"
             \/ pos = "loop"
             \/ (pos = "after" /\ reqPartId # 0 /\ controls'.input = 0) ]_vars
    /\ [](pos \in {"sched", "enter", "fetch", "refresh", "leave", "schedule",
                   "panic"} => controls.input = 0)

\* a typed character has been captured by the second or a later tick, after
\* an earlier tick captured none
C17_Witness ==
    /\ pos = "sched"
    /\ tick >= 2
    /\ registers[VM_VARIABLE_INPUT_KEY] = TypedKey
    /\ controls.input = 0

\* a part change is about to reset the input with a character pending
C17_Dropped ==
    /\ pos = "after"
    /\ ~controls.quit
    /\ reqPartId # 0
    /\ controls.input # 0

(***************************************************************************)
(* The tick counters at their full width.  _currTicks, _prevTicks and      *)
(* _nextTicks are uint32_t and SDL_GetTicks wraps to 0 after 2^32 - 1 ms;  *)
(* a third specification keeps the three counters as << high, low >> pairs *)
(* of 16-bit halves and starts the loop WrapLead ms before the wrap, with  *)
(* the pause register as a script may have left it.                        *)
(***************************************************************************)
\* how long before the wrap the specification starts, and how long after
\* the wrap it follows the clock (ms)
WrapLead == 2
WrapSpan == 24

\* uint32_t addition of a delay below 2^31
WideAdd(a, n) ==
    LET lo == a[2] + (n % 65536)
        hi == a[1] + (n \div 65536) + (lo \div 65536)
    IN  << hi % 65536, lo % 65536 >>

\* uint32_t comparisons
WideLe(a, b) == a[1] < b[1] \/ (a[1] = b[1] /\ a[2] <= b[2])
WideLt(a, b) == a # b /\ WideLe(a, b)

\* UINT32_MAX
WideMax == << 65535, 65535 >>

\* real time elapsed since the wrap (negative before it), for the counter
\* values around the wrap
WideOffset(c) == IF c[1] = 65535 THEN c[2] - 65536 ELSE c[2]
InWindow(c) ==
    /\ c[1] \in {0, 65535}
    /\ -(WrapLead + 1) <= WideOffset(c) /\ WideOffset(c) <= WrapSpan

\* SDL_GetTicks in is_ready: no time elapsed since the last reading, or the
\* deadline the loop slept until
WideReadings(last) ==
    { c \in {last, nextTicks} :
        InWindow(c) /\ WideOffset(last) <= WideOffset(c) }

\* SDL_GetTicks in schedule: the tick took no time, or one ms
WideLateReadings(last) ==
    { c \in {last, WideAdd(last, 1)} : InWindow(c) }

\* values of VM_VARIABLE_PAUSE_SLICES a script may have left
PauseValues == {0, 1, 65535}

InitWide ==
    /\ pos = "loop"
    /\ cur = 0
    /\ threads = reset_threads([t \in ThreadIds |-> Thread0])
    /\ \E seed \in Seeds, pause \in PauseValues :
          registers = [reset_registers(ResetRegisters(seed))
                         EXCEPT ![VM_VARIABLE_PAUSE_SLICES] = pause]
    /\ stack = reset_stack(<< >>)
    /\ \E image \in KeysImageIds : bytecode = [buffer |-> image, offset |-> 0]
    /\ currTicks = << 65535, 65535 - WrapLead >>
    /\ prevTicks = currTicks
    /\ nextTicks = WideAdd(currTicks, 1)
    /\ controls = Controls0
    /\ reqPartId = 0
    /\ curPartId = GAME_PART1
    /\ tick = 0
    /\ runnable = {}
    /\ ran = {} /\ done = {}
    /\ reqTick = NoThreads /\ yieldedAt = NoThreads /\ resumeAt = NoThreads
    /\ killAllTick = -1 /\ switchTick = -1
    /\ revived = {}
    /\ slice = Slice0(0)
    /\ audio = Audio0
    /\ video = Video0

\* is_ready, gate closed: engine stopped or paused
WideGateHeld ==
    /\ pos = "run"
    /\ controls.quit \/ controls.pause
    /\ \E now \in WideReadings(currTicks) :
          /\ currTicks' = now
          /\ nextTicks' = WideAdd(now, PAUSED_DELAY)
    /\ pos' = "after"
    /\ UNCHANGED << devices, cur, vm, prevTicks, controls, parts, tick, hist >>

\* is_ready, gate closed: the deadline is not reached
WideGateEarly ==
    /\ pos = "run"
    /\ ~(controls.quit \/ controls.pause)
    /\ \E now \in WideReadings(currTicks) :
          /\ WideLt(now, nextTicks)
          /\ currTicks' = now
    /\ pos' = "after"
    /\ UNCHANGED << devices, cur, vm, prevTicks, nextTicks, controls, parts, tick, hist >>

\* is_ready, gate open: a tick is executed
WideGateOpen ==
    /\ pos = "run"
    /\ ~(controls.quit \/ controls.pause)
    /\ tick < MaxTick
    /\ \E now \in WideReadings(currTicks) :
          /\ WideLe(nextTicks, now)
          /\ currTicks' = now
    /\ prevTicks' = nextTicks
    /\ tick' = tick + 1
    /\ pos' = "inputs"
    /\ UNCHANGED << devices, cur, vm, nextTicks, controls, parts, hist >>

\* schedule: the next deadline from the pause register
WideSchedule ==
    /\ pos = "schedule"
    /\ \E now \in WideLateReadings(currTicks) :
          LET delay == registers[VM_VARIABLE_PAUSE_SLICES] * SLICE_TICKS
              next  == WideAdd(prevTicks, delay)
          IN  /\ currTicks' = now
              /\ nextTicks' = IF WideLe(next, now) THEN WideAdd(now, 1)
                              ELSE next
    /\ pos' = "after"
    /\ UNCHANGED << devices, cur, vm, prevTicks, controls, parts, tick, hist >>

NextWide ==
    \/ ProcessEvents
    \/ WideGateHeld
    \/ WideGateEarly
    \/ WideGateOpen
    \/ ProcessInputs
    \/ SchedulingPass
    \/ SkipThread
    \/ EnterThread
    \/ Execute
    \/ RefreshPc
    \/ LeaveThread
    \/ WideSchedule
    \/ EngineStop
    \/ NextIteration

SpecWide == InitWide /\ [][NextWide]_vars

\* C18: when schedule returns, the next deadline is strictly later than the
\* host time it read (at least now + 1), whatever the pause register holds
\* and however late the tick ran
C18_DeadlineAfterNow ==
    [][ pos = "schedule" => WideLt(currTicks', nextTicks') ]_vars

\* schedule has read the last value of the host clock and left the deadline
\* at 0, which is not later
C18_Witness ==
    /\ pos = "after"
    /\ tick >= 1
    /\ currTicks = WideMax
    /\ nextTicks = << 0, 0 >>

\* the deadline is later than the reading whenever the reading is not the
\* last value of the clock
C18_DeadlineAfterNowBeforeWrap ==
    [][ (pos = "schedule" /\ currTicks' # WideMax) =>
          WideLt(currTicks', nextTicks') ]_vars

\* a thread is inside its slice
InSlice == pos \in {"fetch", "refresh", "leave"}

\* C19 (as stated): in every slice the ret executed never outnumber the
\* call executed so far, both counts are equal when the slice ends, and the
\* shared stack is at the same depth (empty) at every slice boundary
C19_Balanced ==
    /\ [](InSlice => slice.rets <= slice.calls)
    /\ [](pos = "leave" => slice.calls = slice.rets)
    /\ [](pos \in {"enter", "leave"} => stack.index = 0)

\* C19 (amended): the interpreter only counts: inside a slice the depth of
\* the shared stack is the depth the slice was entered with, plus the call
\* and minus the ret executed so far; a ret at any non-zero depth pops
\* the top entry and continues there whichever thread pushed it, and a
\* slice may end with the two counts different, so that the depth at slice
\* boundaries varies; only depth 0 (ret) and depth 256 (call) are refused
C19_SliceAccounting ==
    /\ [](InSlice => stack.index = slice.depth + slice.calls - slice.rets)
    /\ [][ (pos = "fetch" /\ NextOpcode = 5 /\ stack.index > 0) =>
             /\ pos' = "refresh"
             /\ stack'.index = stack.index - 1
             /\ slice'.rets = slice.rets + 1
             /\ bytecode'.offset = stack.array[stack.index - 1] ]_vars
    /\ [][ (pos = "fetch" /\ NextOpcode = 4 /\ stack.index < StackSize) =>
             /\ pos' = "refresh"
             /\ stack'.index = stack.index + 1
             /\ slice'.calls = slice.calls + 1
             /\ stack'.array[stack.index] = bytecode.offset + 3 ]_vars

\* thread 1, which has called nothing, has returned to the address thread 0
\* pushed in the previous tick
C19_Witness ==
    /\ bytecode.buffer \in ImageIds
    /\ Images[bytecode.buffer] = ImageShare
    /\ pos = "refresh"
    /\ cur = 1
    /\ tick = 2
    /\ slice = [Slice0(1) EXCEPT !.rets = 1]
    /\ stack.index = 0
    /\ bytecode.offset = 7

(***************************************************************************)
(* The music timer.  Music::processTimer is the callback of an SDL timer   *)
(* (Music::startTimer, BackendImpl::addTimer), which SDL runs on a thread  *)
(* of its own.  When the pattern it processes is a mark (word1 = 0xfffd)   *)
(* it calls Engine::setMusicMark, i.e. VirtualMachine::setRegister, under  *)
(* the music's mutex only, which the interpreter never takes.  A fourth    *)
(* specification interleaves that write with the steps of the tick loop,   *)
(* with a music module playing; an unsynchronised write that overlaps an   *)
(* instruction reading the register lets it see the old or the new value,  *)
(* which the interleaving before or after the instruction covers.          *)
(***************************************************************************)
\* pattern.word2 of the mark the module holds
MusicMarkValue == 1

\* Music::processTimer / processPattern, word1 = 0xfffd
MusicTimer ==
    /\ pos \notin {"boot", "stopped", "panic"}
    /\ ~(controls.quit \/ controls.pause)
    /\ registers' = [registers EXCEPT ![VM_VARIABLE_MUSIC_MARK] = MusicMarkValue]
    /\ UNCHANGED << devices, pos, cur, threads, stack, bytecode, clock, controls,
                    parts, tick, hist >>

NextMusic ==
    \/ ProcessEvents
    \/ GateHeld
    \/ GateEarly
    \/ GateOpen
    \/ ProcessInputs
    \/ SchedulingPass
    \/ SkipThread
    \/ EnterThread
    \/ Execute
    \/ RefreshPc
    \/ LeaveThread
    \/ Schedule
    \/ EngineStop
    \/ NextIteration
    \/ MusicTimer

SpecMusic == InitKeys /\ [][NextMusic]_vars

\* C20: the register bank, the call stack and the thread table are read and
\* written only by the tick loop: every step that changes one of them is a
\* step of Engine::main's loop, never one of a timer or audio callback
C20_ExclusiveOwnership ==
    [][ (registers' # registers \/ stack' # stack \/ threads' # threads) =>
          Next ]_vars

\* the timer callback has written the music-mark register while a thread is
\* between two instructions of its slice
C20_Witness ==
    /\ pos = "refresh"
    /\ registers[VM_VARIABLE_MUSIC_MARK] = MusicMarkValue
    /\ registers[0] > 0

(***************************************************************************)
(* The sound and music instructions on resources that cannot be played.    *)
(* SpecSound runs thread 0 on an image of SoundImages while channel 0     *)
(* still plays a sound the sound timer handed to the mixer earlier.        *)
(***************************************************************************)
InitSound ==
    /\ pos = "fetch"
    /\ cur = 0
    /\ tick = 1
    /\ threads = reset_threads([t \in ThreadIds |-> Thread0])
    /\ stack = reset_stack(<< >>)
    /\ registers = [r \in RegisterIds |-> 0]
    /\ \E image \in SoundImageIds : bytecode = [buffer |-> image, offset |-> 0]
    /\ curPartId \in {GAME_PART0, GAME_PART1}
    /\ reqPartId = 0
    /\ currTicks = 0 /\ prevTicks = 0 /\ nextTicks = 0
    /\ controls = Controls0
    /\ runnable = {0}
    /\ ran = {} /\ done = {}
    /\ reqTick = NoThreads /\ yieldedAt = NoThreads /\ resumeAt = NoThreads
    /\ killAllTick = -1 /\ switchTick = -1
    /\ revived = {}
    /\ slice = Slice0(0)
    /\ audio = playChannel(Audio0, 0,
                           [sample_id |-> 0, frequency |-> 10, volume |-> 63])
    /\ video = Video0

NextSound ==
    \/ Execute
    \/ RefreshPc
    \/ LeaveThread

SpecSound == InitSound /\ [][NextSound]_vars

\* the instruction at the cursor is a sound or a music instruction whose
\* resource is missing, of the wrong type or not loaded
SoundUnplayable ==
    /\ pos = "fetch" /\ bytecode.buffer \in SoundImageIds
    /\ NextOpcode = 24 /\ ~Playable(WordAt(Machine, 1), "RT_SOUND")
MusicUnplayable ==
    /\ pos = "fetch" /\ bytecode.buffer \in SoundImageIds
    /\ NextOpcode = 26 /\ ~Playable(WordAt(Machine, 1), "RT_MUSIC")

\* the interpreter goes on with the next instruction and the audio state is
\* as it was before the call
EffectSkipped ==
    /\ pos' = "refresh"
    /\ bytecode' = [bytecode EXCEPT !.offset = @ + 6]
    /\ audio'.samples = audio.samples
    /\ audio'.channels = audio.channels
    /\ audio'.module = audio.module

\* C23: a sound or music instruction on a missing, wrong-type or not-loaded
\* resource is not fatal, the interpreter continues with the next
\* instruction, and the pending samples, the mixer channels and the music
\* being played are left as they were before the call.
C23_SkippedEffect ==
    [][(SoundUnplayable \/ MusicUnplayable) => EffectSkipped]_vars

\* what the code does: never fatal, the sound instruction is skipped, the
\* music instruction has stopped the music and silenced the four channels
C23_StopsTheMusic ==
    [][/\ SoundUnplayable => EffectSkipped
       /\ MusicUnplayable =>
            /\ pos' = "refresh"
            /\ bytecode' = [bytecode EXCEPT !.offset = @ + 6]
            /\ audio'.samples = audio.samples
            /\ audio' = stopMusicUnlocked(audio)]_vars

\* music 3 was playing and channel 0 was active; the music instruction on an
\* unplayable resource has just left no music and no active channel
C23_Witness ==
    /\ bytecode.buffer \in SoundImageIds
    /\ pos = "refresh" /\ bytecode.offset = 18
    /\ ~Playable(CodeByte(bytecode.buffer, 13) * 256
                   + CodeByte(bytecode.buffer, 14), "RT_MUSIC")
    /\ audio.module = MusicModule0
    /\ \A c \in ChannelIds : ~audio.channels[c].active
    /\ audio.samples[1].sample_id = 1

(***************************************************************************)
(* The audio subsystems under concurrency.  Three threads of control run   *)
(* the code of mixer.cc, sound.cc and music.cc: Engine::main (Audio::start, *)
(* the calls of the sound and music instructions, Audio::stop), the host's *)
(* timer thread (Sound::processTimer, Music::processTimer) and the host's  *)
(* audio thread (Mixer::processAudio).  A method is the sequence of its    *)
(* steps: taking and releasing a mutex (LockGuard), one access to a        *)
(* channel descriptor, a pending sample or the module, one call of a host  *)
(* service.  A "do" step stands for the part of a body that depends on the *)
(* state it reads; it is replaced by its steps when it is reached.         *)
(***************************************************************************)
MaxAudioCalls == 2
\* a pattern row advances data_pos by RowSize; a pattern block is 1024 long
RowSize == 512

Locked(M, body) == << << "lock", M >> >> \o body \o << << "unlock", M >> >>

Mixer_stopAllChannels ==
    Locked("mixer", [i \in 1 .. 4 |-> << "chan", i - 1, "active", FALSE >>])

\* variant of Mixer::playChannel without the LockGuard
Mixer_playChannel_unguarded(index, sample) ==
    IF index \in ChannelIds
    THEN << << "chan", index, "active", TRUE >>,
            << "chan", index, "volume", sample.volume >>,
            << "chan", index, "sample_id", sample.sample_id >> >>
    ELSE << >>

Mixer_playChannel(index, sample) ==
    Locked("mixer",
           IF index \in ChannelIds
           THEN << << "chan", index, "active", TRUE >>,
                   << "chan", index, "volume", sample.volume >>,
                   << "chan", index, "sample_id", sample.sample_id >> >>
           ELSE << >>)

Mixer_stopChannel(index) ==
    Locked("mixer",
           IF index \in ChannelIds
           THEN << << "chan", index, "active", FALSE >> >> ELSE << >>)

Mixer_startAudio == Locked("mixer", << << "host", "startAudio", "mixer" >> >>)
Mixer_stopAudio == Locked("mixer", << << "host", "stopAudio", "mixer" >> >>)

\* variant of Mixer::processAudio that takes the sound mutex inside its own
Mixer_processAudio_nested(ends) ==
    Locked("mixer", Locked("sound", << << "do", "mix_all_channels", ends >> >>))

\* Mixer::processAudio; ends is the channel whose sample reaches its end
\* during this buffer, if any
Mixer_processAudio(ends) ==
    Locked("mixer", << << "do", "mix_all_channels", ends >> >>)
mix_one_channel(a, c, ends) ==
    << << "chanread", c >> >>
        \o (IF a.channels[c].active /\ c = ends
            THEN << << "chan", c, "active", FALSE >> >> ELSE << >>)
mix_all_channels(a, ends) ==
    mix_one_channel(a, 0, ends) \o mix_one_channel(a, 1, ends)
        \o mix_one_channel(a, 2, ends) \o mix_one_channel(a, 3, ends)

Sound_playSound(sound_id, channel, volume, pitch) ==
    Locked("sound",
           IF Playable(sound_id, "RT_SOUND")
           THEN << << "sample", channel % 4,
                      [sample_id |-> sound_id,
                       frequency |-> IF pitch >= 40 THEN 0 ELSE pitch,
                       volume |-> get_volume(volume)] >> >>
           ELSE << >>)
Sound_stopSound ==
    Locked("sound", [i \in 1 .. 4 |-> << "sample", i - 1, AudioSample0 >>])

\* startTimer and stopTimer of Sound and of Music
startTimer(M) == Locked(M, << << "do", "startTimer", M >> >>)
stopTimer(M) == Locked(M, << << "do", "stopTimer", M >> >>)
start_timer(a, M) ==
    IF M \notin a.timers THEN << << "host", "addTimer", M >> >> ELSE << >>
stop_timer(a, M) ==
    IF M \in a.timers THEN << << "host", "removeTimer", M >> >> ELSE << >>

\* Sound::processTimer and its process()
Sound_processTimer(ready) ==
    Locked("sound", IF ready THEN << << "do", "process_sound", 0 >> >> ELSE << >>)
\* variant of process that leaves the forwarded sample pending
process_sample_keep(a, c) ==
    IF a.samples[c].sample_id # NoId
    THEN (IF a.samples[c].volume # 0
          THEN Mixer_playChannel(c, a.samples[c]) ELSE Mixer_stopChannel(c))
    ELSE << >>
process_sample(a, c) ==
    IF a.samples[c].sample_id # NoId
    THEN (IF a.samples[c].volume # 0
          THEN Mixer_playChannel(c, a.samples[c]) ELSE Mixer_stopChannel(c))
            \o << << "sample", c, AudioSample0 >> >>
    ELSE << >>
process_sound(a) ==
    process_sample(a, 0) \o process_sample(a, 1) \o process_sample(a, 2)
        \o process_sample(a, 3)

\* Music::stopMusicUnlocked
stop_music(a) ==
    IF a.module.music_id # NoId
    THEN Mixer_stopAllChannels \o << << "module", "reset", 0 >> >>
    ELSE << >>

\* play_music and load_module of Music::playMusicUnlocked
play_music(music_id, index, ticks) ==
    IF Playable(music_id, "RT_MUSIC")
    THEN << << "module", "reset", 0 >>,
            << "module", "music_id", music_id >>,
            << "module", "music_ticks", MusicData(music_id).music_ticks >>,
            << "module", "data_pos", 0 >>,
            << "module", "seq_index", index >>,
            << "module", "seq_count", MusicData(music_id).seq_count >> >>
            \o (IF ticks # 0 THEN << << "module", "music_ticks", ticks >> >>
                ELSE << >>)
    ELSE << >>

Music_playMusic(id, index, ticks) ==
    LET music_id == IF id = 0 THEN NoId ELSE id
    IN  Locked("music",
               IF music_id # NoId
               THEN << << "do", "stopMusicUnlocked", 0 >> >>
                        \o play_music(music_id, index, ticks)
               ELSE IF index # 0 \/ ticks # 0
               THEN (IF index # 0 THEN << << "module", "seq_index", index >> >>
                     ELSE << >>)
                    \o (IF ticks # 0
                        THEN << << "module", "music_ticks", ticks >> >>
                        ELSE << >>)
               ELSE << << "do", "stopMusicUnlocked", 0 >> >>)

Music_stopMusic == Locked("music", << << "do", "stopMusicUnlocked", 0 >> >>)

\* Music::processPattern on a pattern of the given kind
processPattern(channel, pattern) ==
    CASE pattern = "mark" -> << << "mark", MusicMarkValue >> >>
      [] pattern = "stop" -> Mixer_stopChannel(channel)
      [] pattern = "play" ->
            Mixer_playChannel(channel, [sample_id |-> 1, frequency |-> 0,
                                        volume |-> 63])
      [] OTHER -> << >>

\* Music::processTimer and its process(); the pattern of channel 0 is of
\* the given kind, those of the other channels are empty
Music_processTimer(ready, pattern) ==
    Locked("music", << << "do", "process_music", ready, pattern >> >>)
process_music(a, ready, pattern) ==
    IF ~ready \/ a.module.music_id = NoId THEN << >>
    ELSE IF a.module.seq_index < a.module.seq_count
    THEN processPattern(0, pattern)
            \o (IF a.module.data_pos + RowSize >= 1024
                THEN << << "module", "data_pos", 0 >> >>
                        \o (IF a.module.seq_index + 1 >= a.module.seq_count
                            THEN << << "do", "stopMusicUnlocked", 0 >> >>
                            ELSE << << "module", "seq_index",
                                       a.module.seq_index + 1 >> >>)
                ELSE << << "module", "data_pos",
                           a.module.data_pos + RowSize >> >>)
    ELSE << << "do", "stopMusicUnlocked", 0 >> >>

\* Audio::start and Audio::stop with Mixer::, Sound:: and Music::start and stop
Audio_start ==
    Mixer_stopAllChannels \o Mixer_startAudio
        \o Sound_stopSound \o startTimer("sound")
        \o Music_stopMusic \o startTimer("music")
Audio_stop ==
    Music_stopMusic \o stopTimer("music")
        \o Sound_stopSound \o stopTimer("sound")
        \o Mixer_stopAllChannels \o Mixer_stopAudio

\* the steps a "do" step stands for in the state it is reached in
Expand(a, step) ==
    CASE step[2] = "mix_all_channels" -> mix_all_channels(a, step[3])
      [] step[2] = "startTimer" -> start_timer(a, step[3])
      [] step[2] = "stopTimer" -> stop_timer(a, step[3])
      [] step[2] = "process_sound" -> process_sound(a)
      [] step[2] = "stopMusicUnlocked" -> stop_music(a)
      [] step[2] = "process_music" -> process_music(a, step[3], step[4])

\* a step can be taken: a mutex is free (std::mutex), and SDL_CloseAudio
\* returns once the audio thread is out of the callback
StepEnabled(a, step) ==
    CASE step[1] = "lock" -> a.mutex[step[2]] = "none"
      [] step[1] = "host" /\ step[2] = "stopAudio" -> a.todo["mix"] = << >>
      [] OTHER -> TRUE

\* the audio state after context c has taken its next step
StepEffect(a, c, step) ==
    LET rest == Tail(a.todo[c])
        b == [a EXCEPT !.todo[c] = rest]
    IN  CASE step[1] = "lock" -> [b EXCEPT !.mutex[step[2]] = c]
          [] step[1] = "unlock" -> [b EXCEPT !.mutex[step[2]] = "none"]
          [] step[1] = "chan" -> [b EXCEPT !.channels[step[2]][step[3]] = step[4]]
          [] step[1] = "sample" -> [b EXCEPT !.samples[step[2]] = step[3]]
          [] step[1] = "module" ->
                IF step[2] = "reset" THEN [b EXCEPT !.module = MusicModule0]
                ELSE [b EXCEPT !.module[step[2]] = step[3]]
          [] step[1] = "host" ->
                (CASE step[2] = "startAudio" -> [b EXCEPT !.device = TRUE]
                   [] step[2] = "stopAudio" -> [b EXCEPT !.device = FALSE]
                   [] step[2] = "addTimer" ->
                         [b EXCEPT !.timers = @ \cup {step[3]}]
                   [] step[2] = "removeTimer" ->
                         [b EXCEPT !.timers = @ \ {step[3]}])
          [] step[1] = "do" -> [b EXCEPT !.todo[c] = Expand(a, step) \o rest]
          [] OTHER -> b

InitAudio ==
    /\ pos = "audio"
    /\ cur = 0
    /\ tick = 0
    /\ threads = [t \in ThreadIds |-> Thread0]
    /\ stack = [array |-> [i \in 0 .. (StackSize - 1) |-> 0], index |-> 0]
    /\ registers = [r \in RegisterIds |-> 0]
    /\ bytecode = [buffer |-> NullBuffer, offset |-> 0]
    /\ curPartId = 0
    /\ reqPartId = 0
    /\ currTicks = 0 /\ prevTicks = 0 /\ nextTicks = 0
    /\ controls = Controls0
    /\ runnable = {}
    /\ ran = {} /\ done = {}
    /\ reqTick = NoThreads /\ yieldedAt = NoThreads /\ resumeAt = NoThreads
    /\ killAllTick = -1 /\ switchTick = -1
    /\ revived = {}
    /\ slice = Slice0(0)
    /\ audio = Audio0
    /\ video = Video0

AudioUnchanged ==
    UNCHANGED << pos, cur, threads, stack, bytecode, clock, controls, parts,
                 tick, hist, video >>

\* Engine::start: Audio::start
AudioStart ==
    /\ pos = "audio" /\ audio.phase = "off" /\ audio.calls = 0
    /\ audio' = [audio EXCEPT !.phase = "on", !.todo["main"] = Audio_start,
                              !.calls = 1]
    /\ UNCHANGED registers
    /\ AudioUnchanged

\* a sound or a music instruction of the running script
AudioCall ==
    /\ pos = "audio" /\ audio.phase = "on" /\ audio.todo["main"] = << >>
    /\ audio.calls <= MaxAudioCalls
    /\ \E body \in { Sound_playSound(1, 0, 63, 10), Sound_playSound(1, 1, 0, 10),
                     Music_playMusic(3, 1, 0), Music_playMusic(0, 0, 0) } :
          audio' = [audio EXCEPT !.todo["main"] = body, !.calls = @ + 1]
    /\ UNCHANGED registers
    /\ AudioUnchanged

\* Engine::stop: Audio::stop
AudioStop ==
    /\ pos = "audio" /\ audio.phase = "on" /\ audio.todo["main"] = << >>
    /\ audio' = [audio EXCEPT !.phase = "off", !.todo["main"] = Audio_stop]
    /\ UNCHANGED registers
    /\ AudioUnchanged

\* the host's timer thread calls the callback of a registered timer
TimerCallback ==
    /\ pos = "audio" /\ audio.todo["timer"] = << >>
    /\ \E body \in
            { Sound_processTimer(ready) : ready \in
                    { r \in BOOLEAN : "sound" \in audio.timers } }
              \cup { Music_processTimer(x[1], x[2]) : x \in
                    { y \in BOOLEAN \X {"none", "mark", "stop", "play"} :
                          "music" \in audio.timers } } :
          audio' = [audio EXCEPT !.todo["timer"] = body]
    /\ UNCHANGED registers
    /\ AudioUnchanged

\* the host's audio thread calls the callback of the open device
AudioCallback ==
    /\ pos = "audio" /\ audio.todo["mix"] = << >> /\ audio.device
    /\ \E ends \in {-1, 0} :
          audio' = [audio EXCEPT !.todo["mix"] = Mixer_processAudio(ends)]
    /\ UNCHANGED registers
    /\ AudioUnchanged

\* one thread of control takes its next step
AudioStep ==
    /\ pos = "audio"
    /\ \E c \in Contexts :
          /\ audio.todo[c] # << >>
          /\ StepEnabled(audio, Head(audio.todo[c]))
          /\ audio' = StepEffect(audio, c, Head(audio.todo[c]))
          /\ registers' = IF Head(audio.todo[c])[1] = "mark"
                          THEN [registers EXCEPT ![VM_VARIABLE_MUSIC_MARK] =
                                    Head(audio.todo[c])[2]]
                          ELSE registers
    /\ AudioUnchanged

NextAudio ==
    \/ AudioStart
    \/ AudioCall
    \/ AudioStop
    \/ TimerCallback
    \/ AudioCallback
    \/ AudioStep

SpecAudio == InitAudio /\ [][NextAudio]_vars

\* the step reads or writes a channel descriptor, or the module
AccessesChannels(step) ==
    \/ step[1] \in {"chan", "chanread"}
    \/ step[1] = "do" /\ step[2] = "mix_all_channels"
AccessesModule(step) ==
    \/ step[1] = "module"
    \/ step[1] = "do" /\ step[2] \in {"stopMusicUnlocked", "process_music"}

\* C21: every read or write of a mixer channel descriptor is made by a
\* thread of control that holds the mixer's mutex, and every read or write
\* of the music module (music id, sequence index, data position) by one that
\* holds the music mutex, from the first access of the operation to its
\* last; so no other thread of control gets at a half-updated channel or
\* module.
C21_GuardedAccess ==
    \A c \in Contexts :
        audio.todo[c] # << >> =>
            /\ AccessesChannels(Head(audio.todo[c])) => audio.mutex["mixer"] = c
            /\ AccessesModule(Head(audio.todo[c])) => audio.mutex["music"] = c

\* the timer thread is in the middle of Mixer::playChannel (active written,
\* volume and sample not yet) and the audio thread waits for the mutex
C21_Witness ==
    /\ audio.todo["timer"] # << >>
    /\ Head(audio.todo["timer"])[1] = "chan"
    /\ Head(audio.todo["timer"])[3] = "volume"
    /\ audio.todo["mix"] # << >>
    /\ Head(audio.todo["mix"]) = << "lock", "mixer" >>
    /\ audio.todo["main"] # << >>
    /\ Head(audio.todo["main"]) = << "lock", "mixer" >>

\* C22: no mutex of the mixer, the sound or the music subsystem is held by
\* the thread of control that calls a host service starting or stopping
\* callbacks (startAudio, stopAudio, addTimer, removeTimer).
C22_NoMutexAcrossHost ==
    \A c \in Contexts :
        (audio.todo[c] # << >> /\ Head(audio.todo[c])[1] = "host") =>
            \A M \in Mutexes : audio.mutex[M] # c

\* Engine::main is in stopAudio with the mixer's mutex, waiting for the audio
\* thread, whose callback waits for that mutex
C22_Witness ==
    /\ audio.todo["main"] # << >>
    /\ Head(audio.todo["main"])[1] = "host"
    /\ Head(audio.todo["main"])[2] = "stopAudio"
    /\ audio.mutex["mixer"] = "main"
    /\ audio.todo["mix"] # << >>
    /\ Head(audio.todo["mix"]) = << "lock", "mixer" >>
    /\ \A c \in Contexts :
          audio.todo[c] # << >> => ~StepEnabled(audio, Head(audio.todo[c]))

(***************************************************************************)
(* Drawing polygons.  SpecDraw runs thread 0 on an image of DrawImages;    *)
(* the position and the zoom of the first draw are in registers 1, 2, 3,  *)
(* the page has been filled with one colour.                               *)
(***************************************************************************)
DrawXs == {-32768, -3, 0, 1, 158, 319, 320, 32767}
DrawYs == {-1, 0, 100, 199, 200}
DrawZooms == {32, 64, 128}
DrawFills == {0, 85}

InitDraw ==
    /\ pos = "fetch"
    /\ cur = 0
    /\ tick = 1
    /\ threads = reset_threads([t \in ThreadIds |-> Thread0])
    /\ stack = reset_stack(<< >>)
    /\ \E image \in DrawImageIds, x \in DrawXs, y \in DrawYs, zoom \in DrawZooms :
          /\ bytecode = [buffer |-> image, offset |-> 0]
          /\ registers = [r \in RegisterIds |->
                            CASE r = 1 -> U16(x) [] r = 2 -> U16(y)
                              [] r = 3 -> zoom [] OTHER -> 0]
    /\ curPartId \in {GAME_PART1}
    /\ reqPartId = 0
    /\ currTicks = 0 /\ prevTicks = 0 /\ nextTicks = 0
    /\ controls = Controls0
    /\ runnable = {0}
    /\ ran = {} /\ done = {}
    /\ reqTick = NoThreads /\ yieldedAt = NoThreads /\ resumeAt = NoThreads
    /\ killAllTick = -1 /\ switchTick = -1
    /\ revived = {}
    /\ slice = Slice0(0)
    /\ audio = Audio0
    /\ \E fill \in DrawFills : video = [Video0 EXCEPT !.fill = fill]

NextDraw ==
    \/ Execute
    \/ RefreshPc
    \/ LeaveThread

SpecDraw == InitDraw /\ [][NextDraw]_vars

\* the draw just executed: the first one of the image, with its operands
DrawnFirst == bytecode.buffer \in DrawImageIds /\ pos = "refresh" /\ bytecode.offset = 6
DrawOffset == DrawOffsets[bytecode.buffer - DrawImageBase]
DrawX == AsInt16(registers[1])
DrawY == AsInt16(registers[2])
DrawZoom == registers[3]

\* C24: every write to the page made while a polygon is drawn is made for a
\* row in 0..199 and lands in the 160 bytes of that row, that is on pixel
\* columns 0..319 and at a byte offset in 0..31999, whatever the position,
\* the zoom and the shape.
C24_WritesInsidePage ==
    \A w \in video.writes :
        /\ w[1] \in YMIN .. YMAX
        /\ w[2] \in (w[1] * BPL) .. ((w[1] * BPL) + BPL - 1)
        /\ w[2] \in 0 .. (PageSize - 1)

\* the box of 8 by 4 drawn at the right edge: the lines were cut at column 319
C24_Witness ==
    /\ DrawnFirst /\ DrawOffset = 12 /\ DrawX = 319 /\ DrawY = 199
    /\ DrawZoom = 128
    /\ << 199, 31999, "both" >> \in video.writes
    /\ << 195, (195 * BPL) + 155, "lo" >> \in video.writes

\* the leaf drawn first has 4 points; its box after scaling
DrawLeaf4 ==
    /\ PolyByte(1, DrawOffset) >= 192
    /\ PolyByte(1, DrawOffset + 3) = 4
DrawBbw == (PolyByte(1, DrawOffset + 1) * DrawZoom) \div 64
DrawBbh == (PolyByte(1, DrawOffset + 2) * DrawZoom) \div 64
DrawInside == DrawX \in XMIN .. XMAX /\ DrawY \in YMIN .. YMAX

\* the page differs from what it was before the draw by the pixel at the
\* target position only, which has the colour of the leaf (below 16), the
\* pixel of page 0 (above 16) or its former colour with bit 3 set (16)
OnePixelWritten ==
    LET o     == (DrawY * BPL) + (DrawX \div PPB)
        c     == PolyByte(1, DrawOffset) % 64
        fill  == video.fill
        pixel == IF DrawX % 2 = 0 THEN fill \div 16 ELSE fill % 16
        new   == IF c < 16 THEN c ELSE IF c > 16 THEN pixel ELSE Bit3(pixel)
    IN  /\ video.writes = {<< DrawY, o, IF DrawX % 2 = 0 THEN "hi" ELSE "lo" >>}
        /\ DOMAIN video.data = {o}
        /\ video.data[o] = IF DrawX % 2 = 0 THEN (new * 16) + (fill % 16)
                           ELSE ((fill \div 16) * 16) + new
NothingWritten == video.writes = {} /\ video.data = EmptyMap

\* C25: a leaf of 4 points whose scaled box is at most 1 wide and at most 1
\* high is drawn as one pixel at the target position when the position is
\* inside 0..319 x 0..199, as nothing when it is outside, and no other pixel
\* of the page changes.
C25_PointAtMostOne ==
    (DrawnFirst /\ DrawLeaf4 /\ DrawBbw <= 1 /\ DrawBbh <= 1) =>
        IF DrawInside THEN OnePixelWritten ELSE NothingWritten

\* what the code does: the box must be 1 in one dimension and at most 1 in
\* the other; a box of 0 by 0 is filled like any polygon, and nothing is
\* written for its points, which all coincide
C25_PointOneByOne ==
    (DrawnFirst /\ DrawLeaf4 /\ DrawBbw <= 1 /\ DrawBbh <= 1) =>
        IF DrawBbw = 0 /\ DrawBbh = 0 THEN NothingWritten
        ELSE IF DrawInside THEN OnePixelWritten ELSE NothingWritten

\* the leaf of 1 by 1 drawn at (319, 199), and the leaf of 2 by 1 drawn at
\* half size, 1 by 0, at (1, 0): one pixel each
C25_Witness ==
    /\ DrawnFirst /\ DrawLeaf4 /\ OnePixelWritten
    /\ \/ DrawOffset = 0 /\ DrawZoom = 64 /\ DrawX = 319 /\ DrawY = 199
       \/ DrawOffset = 72 /\ DrawZoom = 32 /\ DrawX = 1 /\ DrawY = 0
              /\ DrawBbw = 1 /\ DrawBbh = 0

\* the descriptor drawn first is a leaf; its box, position minus and plus
\* half the scaled size, has no point in the visible region
DrawLeaf == PolyByte(1, DrawOffset) >= 192
DrawBoxOutside ==
    \/ DrawX - (DrawBbw \div 2) > XMAX
    \/ DrawX + (DrawBbw \div 2) < XMIN
    \/ DrawY - (DrawBbh \div 2) > YMAX
    \/ DrawY + (DrawBbh \div 2) < YMIN

\* C26: drawing a leaf whose box lies entirely outside the visible region
\* of 320 by 200 changes no byte of the page.
C26_OutsideWritesNothing ==
    (DrawnFirst /\ DrawLeaf /\ DrawBoxOutside) => NothingWritten

\* the box of 16 by 8 at x = -32768, where the left edge of the box is
\* below the least int16_t, and the same box just past the right edge
C26_Witness ==
    /\ DrawnFirst /\ DrawOffset = 12 /\ DrawZoom = 128 /\ DrawY = 100
    /\ DrawX = -32768
    /\ DrawBoxOutside /\ NothingWritten

\* the first draw of the image has just been executed, however it ended
DrawExecuted ==
    /\ bytecode.buffer \in DrawImageIds
    /\ threads[0].opcode = 85
    /\ pos \in {"refresh", "panic", "hang"}

\* the type byte of the descriptor drawn first is neither the one of a leaf
\* nor the one of a hierarchy
DrawBadType ==
    LET type == PolyByte(1, DrawOffset)
    IN  type < 192 /\ type % 64 # 2

\* C28: a descriptor whose type byte is neither a leaf nor a hierarchy
\* draws nothing and is not fatal: no byte of the page changes, and the
\* interpreter goes on with the instruction after the draw.
C28_BadTypeSkipped ==
    (DrawExecuted /\ DrawBadType) =>
        /\ pos = "refresh"
        /\ bytecode.offset = 6
        /\ NothingWritten

\* the descriptor of type 67 drawn in the middle of a page whose pixels
\* differ from every colour a leaf would put there
C28_Witness ==
    /\ DrawExecuted /\ DrawBadType /\ DrawOffset = 84
    /\ DrawX = 158 /\ DrawY = 100 /\ DrawZoom = 64
    /\ video.fill = 85
    /\ pos = "refresh" /\ NothingWritten

\* the call of renderPolygons the draw started with
FirstCall ==
    [ buffer |-> 1, offset |-> DrawOffset,
      position |-> [x |-> DrawX, y |-> DrawY],
      zoom |-> DrawZoom, color |-> 255, depth |-> 1 ]

\* C27: drawPolygons terminates for every descriptor it is given, so the
\* instruction that issued the draw always completes.
C27_DrawCompletes ==
    DrawExecuted => (pos = "refresh" /\ video.calls = << >>)

\* the hierarchy whose only child is itself: however deep the recursion has
\* gone, the call to be made next is the call the draw started with, and
\* making it leaves the same call to be made
C27_Witness ==
    /\ DrawExecuted /\ DrawOffset = 52
    /\ pos = "hang"
    /\ video.calls # << >>
    /\ [Head(video.calls) EXCEPT !.depth = 1] = FirstCall
    /\ [Head(renderPolygons(video).calls) EXCEPT !.depth = 1] = FirstCall
    /\ NothingWritten

(***************************************************************************)
(* Leaving the segment.  SpecGone runs thread 0 on an image of GoneImages: *)
(* the thread moves its cursor to 0xFFFF, and the loop of run_one_thread   *)
(* goes on as long as the yield flag is not set.                           *)
(***************************************************************************)
\* how many bytes after 0xFFFF the cursor is followed
MaxBeyond == 8
\* what the memory after the segment can hold: movi, yield, kill, or an
\* invalid opcode
BeyondBytes == {0, 6, 17, 63}
GoneCounts == {2, 3, 4}

InitGone ==
    /\ pos = "fetch"
    /\ cur = 0
    /\ tick = 1
    /\ threads = reset_threads([t \in ThreadIds |-> Thread0])
    /\ stack = reset_stack(<< >>)
    /\ \E image \in GoneImageIds, n \in GoneCounts :
          /\ bytecode = [buffer |-> image, offset |-> 0]
          /\ registers = [r \in RegisterIds |-> IF r = 0 THEN n ELSE 0]
    /\ curPartId \in {GAME_PART1}
    /\ reqPartId = 0
    /\ currTicks = 0 /\ prevTicks = 0 /\ nextTicks = 0
    /\ controls = Controls0
    /\ runnable = {0}
    /\ ran = {} /\ done = {}
    /\ reqTick = NoThreads /\ yieldedAt = NoThreads /\ resumeAt = NoThreads
    /\ killAllTick = -1 /\ switchTick = -1
    /\ revived = {}
    /\ slice = Slice0(0)
    /\ audio = Audio0
    /\ video = Video0

\* run_one_thread, one turn of the loop with the cursor after the segment:
\* the opcode and its operands are what the memory holds there
ExecuteBeyond ==
    /\ pos = "fetch"
    /\ ~InSegment
    /\ bytecode.offset < PC_INACTIVE + MaxBeyond
    /\ \E b \in BeyondBytes :
          \E m \in {FetchExecute([Machine EXCEPT !.beyond = b], cur)} :
              /\ threads' = m.threads
              /\ registers' = m.registers
              /\ stack' = m.stack
              /\ bytecode' = [buffer |-> m.buffer, offset |-> m.offset]
              /\ reqPartId' = m.reqPartId
              /\ audio' = m.audio
              /\ video' = m.video
              /\ pos' = IF m.fatal THEN "panic" ELSE "refresh"
    /\ ran' = ran \cup {cur}
    /\ resumeAt' = [resumeAt EXCEPT ![cur] = -1]
    /\ UNCHANGED << cur, clock, controls, curPartId, tick, runnable, done,
                    reqTick, killAllTick, revived, switchTick, yieldedAt,
                    slice >>

NextGone ==
    \/ Execute
    \/ ExecuteBeyond
    \/ RefreshPc
    \/ LeaveThread

SpecGone == InitGone /\ [][NextGone]_vars

\* C29: the fetch-execute loop of a thread ends as soon as the thread becomes
\* inactive: once its current_pc is 0xFFFF, by kill or by a jump, call,
\* cjmp or djnz to 0xFFFF, the loop is not back at its fetch in that tick.
C29_InactiveStopsFetching ==
    ~(pos = "fetch" /\ threads[cur].current_pc = PC_INACTIVE)

\* after the jump to 0xFFFF the loop fetched there and ran the movi it
\* found: the cursor is past 0xFFFF and register 0 was written
C29_Witness ==
    /\ bytecode.buffer = GoneImageBase + 1
    /\ pos = "refresh"
    /\ threads[cur].opcode = 0
    /\ threads[cur].current_pc = PC_INACTIVE
    /\ bytecode.offset = PC_INACTIVE + 4
    /\ registers[0] = 0
    /\ registers[32] = 1

(***************************************************************************)
(* Subroutines.  SpecCall runs thread 0 on an image of NestImages.         *)
(***************************************************************************)
InitCall ==
    /\ pos = "fetch"
    /\ cur = 0
    /\ tick = 1
    /\ threads = reset_threads([t \in ThreadIds |-> Thread0])
    /\ stack = reset_stack(<< >>)
    /\ \E image \in NestImageIds : bytecode = [buffer |-> image, offset |-> 0]
    /\ registers = [r \in RegisterIds |-> 0]
    /\ curPartId \in {GAME_PART1}
    /\ reqPartId = 0
    /\ currTicks = 0 /\ prevTicks = 0 /\ nextTicks = 0
    /\ controls = Controls0
    /\ runnable = {0}
    /\ ran = {} /\ done = {}
    /\ reqTick = NoThreads /\ yieldedAt = NoThreads /\ resumeAt = NoThreads
    /\ killAllTick = -1 /\ switchTick = -1
    /\ revived = {}
    /\ slice = Slice0(0)
    /\ audio = Audio0
    /\ video = Video0

NextCall ==
    \/ Execute
    \/ RefreshPc
    \/ LeaveThread

SpecCall == InitCall /\ [][NextCall]_vars

\* the entries of the stack below index n are the same after the step
Below(n) == \A i \in 0 .. (n - 1) : stack'.array[i] = stack.array[i]

\* where a ret of the image returns to when it leaves the stack n deep:
\* after one of the two calls of the main code, or after the call of
\* subroutine n
NestReturns(n) == IF n = 0 THEN {3, 6} ELSE {NestBack(n)}

\* C30: call L pushes the offset of the instruction after the call (the
\* opcode and its 2-byte operand) and continues at L; ret pops the top of
\* the stack and continues there, which is after the call that is matched
\* with it; neither changes the entries below the top, nested calls return
\* in last-in-first-out order, and the next fetch is made at the new pc.
C30_CallRet ==
    [][ /\ (pos = "fetch" /\ NextOpcode = 4 /\ stack.index < StackSize) =>
              /\ stack'.index = stack.index + 1
              /\ stack'.array[stack.index] = bytecode.offset + 3
              /\ Below(stack.index)
              /\ bytecode'.offset = WordAt(Machine, 1)
              /\ pos' = "refresh"
        /\ (pos = "fetch" /\ NextOpcode = 5 /\ stack.index > 0) =>
              /\ stack'.index = stack.index - 1
              /\ bytecode'.offset = stack.array[stack.index - 1]
              /\ bytecode'.offset \in NestReturns(stack'.index)
              /\ Below(stack'.index)
              /\ pos' = "refresh"
        /\ (pos = "refresh" /\ threads[cur].opcode \in {4, 5}) =>
              /\ threads'[cur].current_pc = bytecode.offset
              /\ bytecode' = bytecode
              /\ pos' = "fetch"
        /\ pos = "fetch" =>
              threads'[cur].opcode = CodeByte(bytecode.buffer, bytecode.offset)
      ]_vars

\* in the image nested 3 deep, the second round: subroutine 3 has just
\* returned into subroutine 2, with the return addresses of subroutines 1
\* and of the main code still on the stack
C30_Witness ==
    /\ bytecode.buffer = NestImageBase + 3
    /\ pos = "refresh"
    /\ threads[cur].opcode = 5
    /\ stack.index = 2
    /\ bytecode.offset = NestBack(2)
    /\ stack.array[0] = 6 /\ stack.array[1] = NestBack(1)
    /\ registers[3] = 2 /\ registers[12] = 1 /\ registers[11] = 1

(***************************************************************************)
(* Lines.  SpecLine draws one line with draw_line on a page filled with    *)
(* one byte; the ends, the row and the colour are in registers 1 to 4.     *)
(***************************************************************************)
LineXs == {0, 1, 2, 3, 158, 159, 160, 161, 318, 319}
LineYs == {0, 1, 100, 199}
LineColors == {0, 5, 15}
LineFills == {0, 163}

InitLine ==
    /\ pos = "line"
    /\ cur = 0
    /\ tick = 1
    /\ threads = reset_threads([t \in ThreadIds |-> Thread0])
    /\ stack = reset_stack(<< >>)
    /\ bytecode = [buffer |-> NullBuffer, offset |-> 0]
    /\ \E x1 \in LineXs, x2 \in LineXs, yl \in LineYs, c \in LineColors :
          /\ x1 <= x2
          /\ registers = [r \in RegisterIds |->
                            CASE r = 1 -> x1 [] r = 2 -> x2
                              [] r = 3 -> yl [] r = 4 -> c [] OTHER -> 0]
    /\ curPartId \in {GAME_PART1}
    /\ reqPartId = 0
    /\ currTicks = 0 /\ prevTicks = 0 /\ nextTicks = 0
    /\ controls = Controls0
    /\ runnable = {}
    /\ ran = {} /\ done = {}
    /\ reqTick = NoThreads /\ yieldedAt = NoThreads /\ resumeAt = NoThreads
    /\ killAllTick = -1 /\ switchTick = -1
    /\ revived = {}
    /\ slice = Slice0(0)
    /\ audio = Audio0
    /\ \E fill \in LineFills : video = [Video0 EXCEPT !.fill = fill]

LineX1 == registers[1]
LineX2 == registers[2]
LineY == registers[3]
LineColor == registers[4]

\* draw_line with the colour of the polygon being filled, which selects
\* render_line_plain for a colour below 16
LineFill ==
    /\ pos = "line"
    /\ video' = draw_line(video, LineX1, LineX2, LineY, LineColor)
    /\ pos' = "drawn"
    /\ UNCHANGED << cur, vm, clock, controls, parts, tick, hist, audio >>

NextLine == LineFill

SpecLine == InitLine /\ [][NextLine]_vars

\* the colour of pixel x of row y: the high nibble of its byte when x is
\* even, the low nibble when x is odd
Pixel(v, x, y) ==
    LET b == PageByte(v, (y * BPL) + (x \div PPB))
    IN  IF x % 2 = 0 THEN b \div 16 ELSE b % 16

\* C31: for 0 <= x1 <= x2 <= 319, a row in 0..199 and a colour below 16, the
\* plain line fill sets exactly the pixels x1..x2 of the row to the colour
\* and leaves every other pixel of the page as it was.
C31_PlainLineExact ==
    pos = "drawn" =>
        /\ \A o \in DOMAIN video.data :
              o \in (LineY * BPL) .. ((LineY * BPL) + BPL - 1)
        /\ \A x \in XMIN .. XMAX :
              Pixel(video, x, LineY) =
                  IF x \in LineX1 .. LineX2 THEN LineColor
                  ELSE Pixel([Video0 EXCEPT !.fill = video.fill], x, LineY)

\* a line from an odd to an even column, and a line of one pixel in an odd
\* column, on a page of another colour: the neighbours are kept
C31_Witness ==
    /\ pos = "drawn" /\ video.fill = 163 /\ LineColor = 5 /\ LineY = 199
    /\ \/ /\ LineX1 = 159 /\ LineX2 = 318
          /\ Pixel(video, 158, 199) = 10 /\ Pixel(video, 159, 199) = 5
          /\ Pixel(video, 318, 199) = 5 /\ Pixel(video, 319, 199) = 3
       \/ /\ LineX1 = 161 /\ LineX2 = 161
          /\ Pixel(video, 160, 199) = 10 /\ Pixel(video, 161, 199) = 5

(***************************************************************************)
(* Pending pc requests (vm.cc 590-598, 630-634, 317-329): requested_pc is   *)
(* one field per thread, written by init and by reset with state 2 and     *)
(* consumed by the first loop of run_all_threads.                          *)
(***************************************************************************)

\* the request the first loop of run_all_threads finds in a slot
PendingPc(t) == threads[t].requested_pc

\* C32: a thread has one pending pc request, the last one written: an init
\* stores its pc in the target's request whatever was pending there (a kill
\* request included), a reset with state 2 stores the kill request in every
\* slot of its range whatever was pending there (an init included), no other
\* slot's request changes, and this whoever the running thread is; the
\* scheduling pass then applies the one request it finds (the init pc, or
\* inactive for a kill) and clears it
C32_LastRequestWins ==
    [][ /\ (pos = "fetch" /\ pos' = "refresh" /\ IsInit) =>
              \A t \in ThreadIds :
                  threads'[t].requested_pc =
                      IF t = InitTarget THEN InitPc ELSE PendingPc(t)
        /\ (pos = "fetch" /\ pos' = "refresh" /\ IsReset /\ ResetState = 2) =>
              \A t \in ThreadIds :
                  threads'[t].requested_pc =
                      IF t \in ResetRange THEN PC_KILL ELSE PendingPc(t)
        /\ (pos = "sched") =>
              \A t \in ThreadIds :
                  /\ threads'[t].requested_pc = PC_INACTIVE
                  /\ threads'[t].current_pc =
                        CASE PendingPc(t) = PC_INACTIVE -> threads[t].current_pc
                          [] PendingPc(t) = PC_KILL -> PC_INACTIVE
                          [] OTHER -> PendingPc(t) ]_vars

\* an init has just replaced a kill request written earlier in the same tick
\* (the target was killed by a kill-all of this tick and is revived), while
\* another slot still holds that kill request
C32_Witness ==
    /\ pos = "refresh"
    /\ threads[cur].opcode = 8
    /\ killAllTick = tick
    /\ \E t \in revived :
          /\ reqTick[t] = tick
          /\ PendingPc(t) \notin {PC_KILL, PC_INACTIVE}
    /\ \E u \in ThreadIds : PendingPc(u) = PC_KILL

\* a kill request has just replaced an init written earlier in the same tick
C32_WitnessCancel ==
    /\ pos = "refresh"
    /\ threads[cur].opcode = 12
    /\ killAllTick = tick
    /\ ran # {cur}
    /\ \A t \in ThreadIds : PendingPc(t) = PC_KILL

\* a state request that the scheduling pass has not copied yet
PendingState(t) == threads[t].requested_state # threads[t].current_state

\* InitPart or EngineReset: the steps that call setByteCode
InstallsByteCode == pos = "boot" \/ (pos = "after" /\ pos' = "loop" /\ reqPartId # 0)

\* C33: a request stays in its field until it is applied or replaced: a
\* run() call stopped by the ready gate (and every other step outside the
\* execution of an instruction, the scheduling pass and setByteCode) leaves
\* the request fields and the fields they target as they are; an instruction
\* changes a request field only when it is an init or a reset that targets
\* the slot; a pc request found by the scheduling pass was written in the
\* executed tick before, and the pass applies it and leaves nothing pending,
\* so that a pass without a new request changes no pc and no pause state
C33_PendingUntilApplied ==
    [][ /\ (pos \notin {"fetch", "sched"} /\ ~InstallsByteCode) =>
              \A t \in ThreadIds :
                  /\ threads'[t].requested_pc = threads[t].requested_pc
                  /\ threads'[t].requested_state = threads[t].requested_state
                  /\ threads'[t].current_state = threads[t].current_state
                  /\ (pos # "refresh" \/ t # cur) =>
                        threads'[t].current_pc = threads[t].current_pc
        /\ (pos = "fetch") =>
              \A t \in ThreadIds :
                  /\ threads'[t].requested_pc # threads[t].requested_pc =>
                        \/ IsInit /\ t = InitTarget
                        \/ IsReset /\ ResetState = 2 /\ t \in ResetRange
                  /\ threads'[t].requested_state # threads[t].requested_state =>
                        IsReset /\ ResetState \in {0, 1} /\ t \in ResetRange
        /\ (pos = "sched") =>
              \A t \in ThreadIds :
                  /\ PendingPc(t) # PC_INACTIVE => reqTick[t] = tick - 1
                  /\ threads'[t].requested_pc = PC_INACTIVE
                  /\ threads'[t].requested_state = threads[t].requested_state
                  /\ threads'[t].current_state = threads[t].requested_state
                  /\ (PendingPc(t) = PC_INACTIVE /\ ~PendingState(t)) =>
                        /\ threads'[t].current_pc = threads[t].current_pc
                        /\ threads'[t].current_state = threads[t].current_state
      ]_vars

\* run() has just returned at the paused gate with a pc request and a state
\* request of the last executed tick still pending
C33_Witness ==
    /\ pos = "after"
    /\ controls.pause
    /\ ~controls.quit
    /\ tick >= 1
    /\ \E t \in ThreadIds :
          /\ PendingPc(t) \notin {PC_INACTIVE, PC_KILL}
          /\ reqTick[t] = tick
    /\ \E t \in ThreadIds : PendingState(t)

(***************************************************************************)
(* The tick loop on the images of TickImages, from the first loop          *)
(* iteration after Engine::reset.                                          *)
(***************************************************************************)
InitTicks ==
    /\ pos = "loop"
    /\ cur = 0
    /\ threads = reset_threads([t \in ThreadIds |-> Thread0])
    /\ \E seed \in Seeds : registers = reset_registers(ResetRegisters(seed))
    /\ stack = reset_stack(<< >>)
    /\ \E image \in TickImageIds : bytecode = [buffer |-> image, offset |-> 0]
    /\ currTicks = 0 /\ prevTicks = 0 /\ nextTicks = 0
    /\ controls = Controls0
    /\ reqPartId = 0
    /\ curPartId = GAME_PART1
    /\ tick = 0
    /\ runnable = {}
    /\ ran = {} /\ done = {}
    /\ reqTick = NoThreads /\ yieldedAt = NoThreads /\ resumeAt = NoThreads
    /\ killAllTick = -1 /\ switchTick = -1
    /\ revived = {}
    /\ slice = Slice0(0)
    /\ audio = Audio0
    /\ video = Video0

NextTicks ==
    \/ ProcessEvents
    \/ GateHeld
    \/ GateEarly
    \/ GateOpen
    \/ ProcessInputs
    \/ SchedulingPass
    \/ SkipThread
    \/ EnterThread
    \/ Execute
    \/ RefreshPc
    \/ LeaveThread
    \/ Schedule
    \/ EngineStop
    \/ NextIteration

SpecTicks == InitTicks /\ [][NextTicks]_vars

\* the tick loop never stops being scheduled: a step that can be taken is
\* taken (the loop of Engine::run and the loops of run_all_threads and
\* run_one_thread are sequential code)
SpecTicksFair == SpecTicks /\ WF_vars(NextTicks)

OnPaused == Images[bytecode.buffer] = ImagePaused
OnSpin == Images[bytecode.buffer] = ImageSpin

C34_WitnessResumed ==
    /\ OnPaused
    /\ tick = 5
    /\ pos = "leave"
    /\ cur = 1
    /\ registers[16] = 1

\* the loop body of run_one_thread is being executed
InLoop == pos \in {"fetch", "refresh"}

\* thread 0 of the looping image is in its slice of tick 3
SpinEntered == OnSpin /\ pos = "fetch" /\ tick = 3

\* thread 0 is still in that slice and thread 1, runnable, has not run
Starved == InLoop /\ tick = 3 /\ cur = 0 /\ 1 \in runnable /\ 1 \notin ran

\* C36: a slice is left only after a yield or a kill, or by a fatal error,
\* however many instructions it has executed; run_all_threads is left only
\* when the slice of every slot has ended, and while a slice lasts no
\* higher-numbered thread has run; so an executed tick returns (or ends in
\* a fatal error) unless some slice lasts forever, and on the image whose
\* thread 0 loops on a jump the slice of tick 3 lasts forever and thread 1,
\* runnable, never runs again
C36_SliceEndsAtYieldOnly ==
    /\ [][ /\ (pos = "refresh" /\ pos' # "fetch") =>
                  pos' = "leave" /\ threads[cur].opcode \in {6, 17}
           /\ (pos = "fetch" /\ pos' # "refresh") => pos' = "panic"
           /\ (pos' = "schedule") => done' = ThreadIds
           /\ InLoop => \A t \in ran : t <= cur
         ]_vars
    /\ (<>[]InLoop) \/ ((pos = "sched") ~> (pos \in {"after", "panic"}))
    /\ [](SpinEntered => []Starved)
    /\ [](OnPaused /\ pos = "sched" => <>(pos = "after"))

\* thread 0 has executed its jump in tick 3 and is about to fetch it again;
\* thread 1 ran in tick 2, is runnable and has not run in this tick
C36_Witness ==
    /\ OnSpin
    /\ tick = 3
    /\ pos = "fetch"
    /\ cur = 0
    /\ threads[0].opcode = 7
    /\ registers[16] = 1
    /\ 1 \in runnable
    /\ 1 \notin ran

(***************************************************************************)
(* The slots init and reset address (vm.cc 590-598, 615-639; vm.h          *)
(* 171-174): thread 0 executes one init or one reset whose operand bytes   *)
(* are drawn from SlotBytes.                                               *)
(***************************************************************************)
InitSlots ==
    /\ pos = "fetch"
    /\ cur = 0
    /\ tick = 1
    /\ threads = reset_threads([t \in ThreadIds |-> Thread0])
    /\ stack = reset_stack(<< >>)
    /\ \E image \in SlotImageIds : bytecode = [buffer |-> image, offset |-> 0]
    /\ \E seed \in Seeds : registers = reset_registers(ResetRegisters(seed))
    /\ curPartId \in {GAME_PART1}
    /\ reqPartId = 0
    /\ currTicks = 0 /\ prevTicks = 0 /\ nextTicks = 0
    /\ controls = Controls0
    /\ runnable = {0}
    /\ ran = {} /\ done = {}
    /\ reqTick = NoThreads /\ yieldedAt = NoThreads /\ resumeAt = NoThreads
    /\ killAllTick = -1 /\ switchTick = -1
    /\ revived = {}
    /\ slice = Slice0(0)
    /\ audio = Audio0
    /\ video = Video0

NextSlots ==
    \/ Execute
    \/ RefreshPc
    \/ LeaveThread

SpecSlots == InitSlots /\ [][NextSlots]_vars

\* the slot indices the instruction at the cursor stores through
SlotsAddressed ==
    IF IsInit THEN {InitTarget}
    ELSE IF IsReset /\ ResetState \in {0, 1, 2} THEN ResetBegin .. ResetEnd
    ELSE {}

\* C35: every slot index an init or a reset stores through is one of the 64
\* slots of the thread table, and the instruction writes nothing outside
\* the table: registers and stack are as before and the run stays defined
C35_SlotsInsideTable ==
    [][ (pos = "fetch" /\ (IsInit \/ IsReset)) =>
          /\ SlotsAddressed \subseteq ThreadIds
          /\ registers' = registers
          /\ stack' = stack
          /\ pos' # "undefined" ]_vars

\* init 64 has stored its pc where register 3 lies
C35_Witness ==
    /\ pos = "refresh"
    /\ threads[cur].opcode = 8
    /\ registers[16] = 4660
    /\ registers[LandsIn(NumThreads, RequestedPcAt)] = 9
    /\ \A t \in ThreadIds : threads[t].requested_pc = PC_INACTIVE

(***************************************************************************)
(* Part switches (resources.cc 97-117, 145-163; engine.cc 124-136,         *)
(* 186-194): the tick loop on a segment that requests a part.              *)
(***************************************************************************)
InitSwitch ==
    /\ pos = "loop"
    /\ cur = 0
    /\ threads = reset_threads([t \in ThreadIds |-> Thread0])
    /\ \E seed \in Seeds : registers = reset_registers(ResetRegisters(seed))
    /\ stack = reset_stack(<< >>)
    /\ \E image \in SwitchImageIds : bytecode = [buffer |-> image, offset |-> 0]
    /\ currTicks = 0 /\ prevTicks = 0 /\ nextTicks = 0
    /\ controls = Controls0
    /\ reqPartId = 0
    /\ curPartId = GAME_PART1
    /\ tick = 0
    /\ runnable = {}
    /\ ran = {} /\ done = {}
    /\ reqTick = NoThreads /\ yieldedAt = NoThreads /\ resumeAt = NoThreads
    /\ killAllTick = -1 /\ switchTick = -1
    /\ revived = {}
    /\ slice = Slice0(0)
    /\ audio = Audio0
    /\ video = Video0

NextSwitch ==
    \/ ProcessEvents
    \/ GateHeld
    \/ GateEarly
    \/ GateOpen
    \/ ProcessInputs
    \/ SchedulingPass
    \/ SkipThread
    \/ EnterThread
    \/ Execute
    \/ RefreshPc
    \/ LeaveThread
    \/ Schedule
    \/ EngineStop
    \/ InitPart
    \/ NextIteration

SpecSwitch == InitSwitch /\ [][NextSwitch]_vars

\* the instruction at the cursor is a loadres that requests a part
IsPartRequest == NextOpcode = 25 /\ WordAt(Machine, 1) >= NumResources

\* C37: a part requested by loadres with an id of 256 or more is only
\* recorded during the tick: until run() has returned the bytecode, the
\* current part and the other threads' slots are those of the running part
\* and the request stays recorded; the first step after run() has returned
\* (the engine not being stopped) loads the requested part, installs a
\* bytecode at offset 0, resets the thread table and clears the request
C37_PartSwitchAfterTick ==
    [][ /\ (pos = "fetch" /\ IsPartRequest /\ pos' = "refresh") =>
              /\ reqPartId' = WordAt(Machine, 1)
              /\ bytecode'.buffer = bytecode.buffer
              /\ curPartId' = curPartId
              /\ threads' = [threads EXCEPT ![cur].opcode = 25]
        /\ (pos \notin {"after", "boot"}) =>
              /\ bytecode'.buffer = bytecode.buffer
              /\ curPartId' = curPartId
              /\ reqPartId # 0 => reqPartId' # 0
        /\ (pos = "after" /\ reqPartId # 0 /\ ~controls.quit) =>
              /\ pos' = "loop"
              /\ curPartId' = reqPartId
              /\ reqPartId' = 0
              /\ bytecode'.offset = 0
              /\ threads' = reset_threads(threads)
              /\ switchTick' = tick
      ]_vars

\* thread 1 ends its slice on the running bytecode after thread 0 has
\* requested a part of the game in the same tick
C37_Witness ==
    /\ pos = "leave"
    /\ cur = 1
    /\ ValidPart(reqPartId)
    /\ reqPartId # curPartId
    /\ 0 \in ran
    /\ tick # switchTick
    /\ Images[bytecode.buffer] = ImagePart

(***************************************************************************)
(* Order of the audio mutexes (sound.cc 200-257, music.cc 161-237,         *)
(* 347-360, mixer.cc 184-252).                                             *)
(***************************************************************************)
\* the mutexes a thread of control holds
Held(c) == { M \in Mutexes : audio.mutex[M] = c }

\* the thread of control is at a LockGuard whose mutex another one holds
WaitsFor(c, d) ==
    /\ audio.todo[c] # << >>
    /\ Head(audio.todo[c])[1] = "lock"
    /\ audio.mutex[Head(audio.todo[c])[2]] = d
    /\ d # c

\* threads of control that wait for one another's mutexes in a circle
MutexCycle(S) ==
    /\ S # {}
    /\ \A c \in S : \E d \in S : WaitsFor(c, d)

\* C38: a thread of control that reaches the LockGuard of the sound or of
\* the music mutex holds no audio mutex at all, one that reaches the
\* LockGuard of the mixer mutex holds at most the sound or the music mutex
\* (never the mixer's own), the audio thread holds no mutex but the
\* mixer's, and no set of threads of control waits in a circle for
\* mutexes the others hold
C38_MutexOrder ==
    /\ \A c \in Contexts :
          (audio.todo[c] # << >> /\ Head(audio.todo[c])[1] = "lock") =>
              IF Head(audio.todo[c])[2] = "mixer"
              THEN "mixer" \notin Held(c) /\ Cardinality(Held(c)) <= 1
              ELSE Held(c) = {}
    /\ Held("mix") \subseteq {"mixer"}
    /\ \A S \in SUBSET Contexts : ~MutexCycle(S)

\* the timer thread holds the sound mutex and waits for the mixer mutex,
\* which the audio thread holds, while Engine::main waits for the sound
\* mutex
C38_Witness ==
    /\ audio.phase = "on"
    /\ Held("timer") = {"sound"}
    /\ WaitsFor("timer", "mix")
    /\ Head(audio.todo["timer"])[2] = "mixer"
    /\ WaitsFor("main", "timer")

(***************************************************************************)
(* Pending sound requests (sound.cc 90-149, 200-257): Engine::main issues  *)
(* sound instructions for channel 0 (audible, then silent) and for channel *)
(* 5 (stored as channel 1) while the timer and the audio thread run.       *)
(***************************************************************************)
\* a sound instruction of the running script
SoundCall ==
    /\ pos = "audio" /\ audio.phase = "on" /\ audio.todo["main"] = << >>
    /\ audio.calls <= MaxAudioCalls
    /\ \E body \in { Sound_playSound(1, 0, 63, 10), Sound_playSound(1, 0, 0, 10),
                     Sound_playSound(1, 5, 20, 45) } :
          audio' = [audio EXCEPT !.todo["main"] = body, !.calls = @ + 1]
    /\ UNCHANGED registers
    /\ AudioUnchanged

NextForward ==
    \/ AudioStart
    \/ SoundCall
    \/ TimerCallback
    \/ AudioCallback
    \/ AudioStep

SpecForward == InitAudio /\ [][NextForward]_vars

\* the steps of the timer thread still to take that forward channel ch to
\* the mixer (the write of the channel's active flag by playChannel or
\* stopChannel), and those that clear its pending sample
ForwardSteps(ch) ==
    { i \in DOMAIN audio.todo["timer"] :
          /\ audio.todo["timer"][i][1] = "chan"
          /\ audio.todo["timer"][i][2] = ch
          /\ audio.todo["timer"][i][3] = "active" }
ClearSteps(ch) ==
    { i \in DOMAIN audio.todo["timer"] :
          audio.todo["timer"][i] = << "sample", ch, AudioSample0 >> }
InSoundTimer == audio.mutex["sound"] = "timer"
Pending(ch) == audio.samples[ch].sample_id # NoId

\* C39: inside Sound::processTimer, which holds the Sound mutex, a channel
\* is forwarded at most once, only if its sample is pending, as a play when
\* the sample's volume is not 0 and as a stop when it is 0, and the
\* forwarded sample is cleared before the mutex is released; a pending
\* sample changes only by a step of the holder of the Sound mutex, which
\* stores the whole new request over the old one or clears it; so a
\* request is forwarded by one timer call at most and a request stored
\* over a pending one replaces it
C39_ForwardedOnce ==
    [][ \A ch \in ChannelIds :
          /\ InSoundTimer =>
                /\ Cardinality(ForwardSteps(ch)) <= 1
                /\ \A i \in ForwardSteps(ch) :
                      /\ Pending(ch)
                      /\ audio.todo["timer"][i][4] = (audio.samples[ch].volume # 0)
                      /\ \E j \in ClearSteps(ch) : j > i
                /\ (ClearSteps(ch) # {} /\ ForwardSteps(ch) = {}) =>
                      /\ Pending(ch)
                      /\ audio'.samples[ch] \in {audio.samples[ch], AudioSample0}
          /\ audio'.samples[ch] # audio.samples[ch] =>
                \E c \in Contexts :
                    /\ audio.mutex["sound"] = c
                    /\ Head(audio.todo[c])[1] = "sample"
                    /\ Head(audio.todo[c])[2] = ch
                    /\ audio'.samples[ch] = Head(audio.todo[c])[3]
      ]_vars

\* Engine::main has stored the silent request for channel 0 over the
\* audible one, which was still pending, and the timer thread now forwards
\* channel 0 as a stop
C39_Witness ==
    /\ InSoundTimer
    /\ audio.todo["timer"] # << >>
    /\ Head(audio.todo["timer"]) = << "chan", 0, "active", FALSE >>
    /\ audio.samples[0] = [sample_id |-> 1, frequency |-> 10, volume |-> 0]
    /\ audio.calls = MaxAudioCalls + 1
    /\ \A c \in ChannelIds : ~audio.channels[c].active

(***************************************************************************)
(* The reciprocal table (video.cc 853-859, 887-914, 924-942).  SpecFill    *)
(* runs thread 0 on an image of FillImages; the position and the zoom of   *)
(* the first draw are in registers 1, 2, 3.                                *)
(***************************************************************************)
FillXs == {0, 158, 319}
FillYs == {0, 100, 199}
FillZooms == {64, 128, 4096}

InitFill ==
    /\ pos = "fetch"
    /\ cur = 0
    /\ tick = 1
    /\ threads = reset_threads([t \in ThreadIds |-> Thread0])
    /\ stack = reset_stack(<< >>)
    /\ \E image \in FillImageIds, x \in FillXs, y \in FillYs, zoom \in FillZooms :
          /\ bytecode = [buffer |-> image, offset |-> 0]
          /\ registers = [r \in RegisterIds |->
                            CASE r = 1 -> U16(x) [] r = 2 -> U16(y)
                              [] r = 3 -> zoom [] OTHER -> 0]
    /\ curPartId \in {GAME_PART1}
    /\ reqPartId = 0
    /\ currTicks = 0 /\ prevTicks = 0 /\ nextTicks = 0
    /\ controls = Controls0
    /\ runnable = {0}
    /\ ran = {} /\ done = {}
    /\ reqTick = NoThreads /\ yieldedAt = NoThreads /\ resumeAt = NoThreads
    /\ killAllTick = -1 /\ switchTick = -1
    /\ revived = {}
    /\ slice = Slice0(0)
    /\ audio = Audio0
    /\ \E fill \in DrawFills : video = [Video0 EXCEPT !.fill = fill]

NextFill ==
    \/ Execute
    \/ RefreshPc
    \/ LeaveThread

SpecFill == InitFill /\ [][NextFill]_vars

FillOffset == FillOffsets[bytecode.buffer - FillImageBase]

\* C40: while a polygon is filled every lookup in the reciprocal table is
\* made with an index in 0..1023: the dy of each edge, after scaling by the
\* zoom, is neither negative nor 1024 or more, whatever the leaf and the
\* zoom
C40_LookupInsideTable ==
    bytecode.buffer \in FillImageIds => ~video.undefined

\* the first draw of the leaf whose points go from the bottom row up, at
\* (158, 100) without zoom, has looked up the table at -4
C40_Witness ==
    /\ bytecode.buffer \in FillImageIds
    /\ FillOffset = 96
    /\ pos = "refresh" /\ bytecode.offset = 6
    /\ AsInt16(registers[1]) = 158 /\ AsInt16(registers[2]) = 100
    /\ registers[3] = 64
    /\ video.undefined
    /\ video.writes = {}

\* the first draw of the leaf of 8 by 20 with a zoom of 4096 has looked up
\* the table at 1280
C40_WitnessZoom ==
    /\ bytecode.buffer \in FillImageIds
    /\ FillOffset = 108
    /\ pos = "refresh" /\ bytecode.offset = 6
    /\ registers[3] = 4096
    /\ video.undefined

\* the same leaf without zoom is filled
C40_WitnessFilled ==
    /\ bytecode.buffer \in FillImageIds
    /\ FillOffset = 108
    /\ pos = "refresh" /\ bytecode.offset = 6
    /\ AsInt16(registers[1]) = 158 /\ AsInt16(registers[2]) = 100
    /\ registers[3] = 64
    /\ ~video.undefined
    /\ video.writes # {}

====
